---- MODULE Spec2Model ----
(***************************************************************************)
(* Model of the WatchDOG market scanner                                    *)
(* (crypto-signal-bot/backend/src/scanner/index.ts, scanner/score.ts,      *)
(* db/predictions.ts): the scan cycle, the admission / eviction / expiry / *)
(* duplicate-sweep operations on the active prediction map, the per-symbol *)
(* card counts and the prediction store.                                   *)
(*                                                                         *)
(* Units.  The source computes in floating point; the model computes in    *)
(* integers: weights and strengths in hundredths (1.2 is 120), scores,     *)
(* confidences and risk/reward ratios in ten-thousandths (a score of 2.0   *)
(* is 20000, a confidence of 63 is 630000), profitability scores in        *)
(* hundred-thousandths (so that confidence * 0.3 is exact), times in       *)
(* milliseconds.  Quotients are rounded down to the unit; ratios that are  *)
(* only compared are compared by cross-multiplication, without rounding.   *)
(*                                                                         *)
(* Atomicity.  The program runs on one JavaScript event loop: code between *)
(* two awaits on external I/O is one atomic step.  Awaits on functions     *)
(* that do no I/O (calculateMarketVolatility, analyzeMarketState,          *)
(* analyzeOrderBook, the in-memory PredictionManager) only yield to the    *)
(* microtask queue, where no timer callback and no HTTP handler runs, so   *)
(* they do not end a step.                                                 *)
(*                                                                         *)
(* Specifications.  Spec: the scanner at work while time passes, until and *)
(* after stop().  FaultSpec: the scanner with failing exchange calls and   *)
(* exceptions in scanSymbol(), on a clock that stands still.  SweepSpec:   *)
(* the duplicate sweep applied to arbitrary maps.  VariantSpec: the        *)
(* admission test of the scanner in ingest/exchange.ts.  TimerSpec: Spec   *)
(* with its timers fair.  ScoreSpec: the scoring functions applied to the  *)
(* feature lists the indicator calculator can return.  HealthSpec: the     *)
(* error count and the health check over many whole scan cycles.           *)
(* PaymentSpec: the crypto payment handler with overlapping status checks. *)
(***************************************************************************)
EXTENDS Integers, Sequences, FiniteSets, TLC

VARIABLES
    now,                \* wall clock (Date.now()), ms
    status,             \* MarketScanner.status: isRunning and errorCount (lastScan,
                        \* symbolsScanned and activePredictions are write-only
                        \* reporting fields and are left out); in HealthSpec
                        \* also lastSuccessfulScan
    scanInterval,       \* the 30 s setInterval is armed
    initialScanPending, \* the 5 s setTimeout of start() has not fired yet
    isScanning,         \* MarketScanner.isScanning
    errorCount,         \* MarketScanner.errorCount
    activePredictions,  \* MarketScanner.activePredictions, in Map insertion order
    cardCounts,         \* MarketScanner.cardCounts: symbol string -> count
    scans,              \* the runScan() invocations in flight, by slot
    outcomeTasks,       \* calculatePredictionOutcome() calls awaiting the price
    dbPredictions,      \* PredictionManager.predictions (ids)
    dbOutcomes,         \* PredictionManager.outcomes
    dbCardCounts,       \* PredictionManager.symbolStats[..].cardCount
    admitted,           \* history: admissions per normalized symbol
    removed,            \* history: how each removed prediction left the map
    lastVerdict,        \* history: what the cycle's latest scanSymbol() came to
    stopCalled,         \* history: stop() has been called
    call,               \* the latest call of a scoring function: arguments, result
    payments            \* CryptoPaymentHandler: pendingPayments, the provider's
                        \* view, the calls in flight, the subscribers added

vars == <<now, status, scanInterval, initialScanPending, isScanning, errorCount,
          activePredictions, cardCounts, scans, outcomeTasks, dbPredictions,
          dbOutcomes, dbCardCounts, admitted, removed, lastVerdict, stopCalled, call,
          payments>>

(***************************************************************************)
(* Bounds of the model                                                     *)
(***************************************************************************)
\* the clock advances in steps of TickMs, up to MaxTicks steps
TickMs == 3600000
MaxTicks == 1
\* runScan() invocations that can be in flight together (the guard allows 1)
MaxSlots == 2
\* admissions per normalized symbol (caps the id counter)
MaxAdmissions == 3
\* clock steps that can pass while one runScan() invocation is in its symbol
\* loop (the clock can always step while it awaits the symbol listing)
MaxTicksInLoop == 0
\* exceptions scanSymbol() raises in one run (caps errorCount)
MaxErrors == 1
\* the largest |cardCount| computeScore() is applied to
MaxCardCount == 7
\* the clock steps of a health run, HealthTickMs each
MaxHealthTicks == 3
\* the largest error count a health run follows
MaxErrorCount == 12
\* the most symbols whose scan throws within one cycle of a health run
MaxThrowsPerCycle == 2
\* the payments created and the calls of the payment handler in flight
MaxPayments == 2
MaxPaymentCalls == 2
\* the subscriber additions counted per payment
MaxActivations == 2

(***************************************************************************)
(* Program constants                                                       *)
(***************************************************************************)
maxActivePredictions == 10
\* the 5 points of `confidence > lowestConfidence + 5`, in ten-thousandths
admissionMargin == 50000
\* isHealthy(): `timeSinceLastScan < 120000`, `this.errorCount < 10`
healthyScanAgeMs == 120000
healthyErrorLimit == 10

(***************************************************************************)
(* Symbols are strings, modelled as sequences of characters.               *)
(***************************************************************************)
\* String.prototype.toUpperCase on one character
ToUpperChar(c) ==
    CASE c = "a" -> "A"
      [] c = "u" -> "U"
      [] OTHER -> c

RECURSIVE RemoveFirstSlash(_)
\* String.prototype.replace('/', ''): removes the first '/' only
RemoveFirstSlash(s) ==
    IF s = <<>> THEN <<>>
    ELSE IF Head(s) = "/" THEN Tail(s)
    ELSE <<Head(s)>> \o RemoveFirstSlash(Tail(s))

RECURSIVE ToUpperCase(_)
\* String.prototype.toUpperCase
ToUpperCase(s) ==
    IF s = <<>> THEN <<>> ELSE <<ToUpperChar(Head(s))>> \o ToUpperCase(Tail(s))

\* a plausible slip: upper-cases but forgets to drop the slash
NormalizeSymbolKeepsSlash(symbol) == ToUpperCase(symbol)

\* symbol.replace('/', '').toUpperCase()
NormalizeSymbol(symbol) == ToUpperCase(RemoveFirstSlash(symbol))

(***************************************************************************)
(* scanner/score.ts                                                        *)
(***************************************************************************)
Max(a, b) == IF a >= b THEN a ELSE b
Min(a, b) == IF a <= b THEN a ELSE b
Abs(a) == IF a >= 0 THEN a ELSE -a

RECURSIVE SumSet(_, _)
\* the sum of val[x] over the x in S
SumSet(val, S) ==
    IF S = {} THEN 0
    ELSE LET x == CHOOSE y \in S : TRUE IN val[x] + SumSet(val, S \ {x})

\* filter(f => f.direction === dir).length
CountDirection(features, dir) ==
    Cardinality({i \in 1..Len(features) : features[i].direction = dir})

\* the features computeScore does not skip (if (!f.direction) continue)
Directional(features) == SelectSeq(features, LAMBDA f : f.direction # "null")

\* `${f.name}_${f.timeframe}_${f.direction}`, as its '_'-separated parts
BreakdownKey(f) == f.name \o <<f.timeframe, f.direction>>

\* (f.weight ?? 1) * (f.strength ?? 1)
FeatureBase(f) == f.weight * f.strength

RECURSIVE SumBase(_)
\* longScore += base, shortScore += base over the features of one direction
SumBase(features) ==
    IF features = <<>> THEN 0
    ELSE FeatureBase(Head(features)) + SumBase(Tail(features))

\* cardCount * 0.15 - (|cardCount| > 5 ? |cardCount| * 0.1 : 0)
CardContribution(cardCount) ==
    LET cardPenalty == IF Abs(cardCount) > 5 THEN Abs(cardCount) * 1000 ELSE 0
    IN  cardCount * 1500 - cardPenalty

\* a plausible slip: the raw long-minus-short score is kept as it is
balanceClampSkipped(rawScore, maxImbalance) == rawScore

\* if (Math.abs(rawScore) > maxImbalance)
\*     balancedScore = rawScore > 0 ? maxImbalance : -maxImbalance
balanceClamp(rawScore, maxImbalance) ==
    IF Abs(rawScore) > maxImbalance
    THEN (IF rawScore > 0 THEN maxImbalance ELSE -maxImbalance)
    ELSE rawScore

\* a plausible slip: the gate asks for more than 5 directional signals
confluenceGateAboveFive(indicatorCount, balancedScore) ==
    IF indicatorCount <= 5 THEN 0 ELSE balancedScore

\* if (indicatorCount < 3) balancedScore = 0
confluenceGate(indicatorCount, balancedScore) ==
    IF indicatorCount < 3 THEN 0 ELSE balancedScore

\* computeScore(features, cardCount): score, indicatorCount and the totals
computeScore(features, cardCount) ==
    LET dirs == Directional(features)
        longScore == SumBase(SelectSeq(dirs, LAMBDA f : f.direction = "long"))
        shortScore == SumBase(SelectSeq(dirs, LAMBDA f : f.direction = "short"))
        indicatorCount == Len(dirs)
        rawScore == longScore - shortScore
        maxImbalance == (Max(longScore, shortScore) * 7) \div 10
        clamped == balanceClamp(rawScore, maxImbalance)
        gated == confluenceGate(indicatorCount, clamped)
        \* Object.keys(breakdown): one key per distinct name/timeframe/direction
        keys == {BreakdownKey(dirs[i]) : i \in 1..Len(dirs)}
        \* parts = k.split('_'); tf = parts[1], dir = parts[2] (0-based)
        k2(k) == <<k[2], k[3]>>
        groups == {k2(k) : k \in keys}
        count(g) == Cardinality({k \in keys : k2(k) = g})
        bonus == [g \in groups |->
                     IF count(g) >= 3
                     THEN (count(g) - 2) * 3000 * (IF g[2] = "long" THEN 1 ELSE -1)
                     ELSE 0]
        cardContribution == CardContribution(cardCount)
    IN  [score |-> gated + SumSet(bonus, groups) + cardContribution,
         indicatorCount |-> indicatorCount,
         longTotal |-> longScore,
         shortTotal |-> shortScore,
         rawScore |-> rawScore,
         balanced |-> clamped,
         bonus |-> SumSet(bonus, groups),
         cardContribution |-> cardContribution]

\* a plausible slip: the 240-minute cap is left out
estimateRunDurationUncapped(score, timeframesAgreement) ==
    LET base == 30 * 60000
        extra == Min(Max(score * 60, 0), 210 * 60000)
        hf == Cardinality(timeframesAgreement \cap {"1h", "2h", "4h"})
        hfBonus == hf * 30 * 60000
    IN  base + extra + hfBonus

\* estimateRunDuration(score, timeframesAgreement), in ms
estimateRunDuration(score, timeframesAgreement) ==
    LET base == 30 * 60000
        extra == Min(Max(score * 60, 0), 210 * 60000)
        hf == Cardinality(timeframesAgreement \cap {"1h", "2h", "4h"})
        hfBonus == hf * 30 * 60000
    IN  Min(240 * 60000, base + extra + hfBonus)

(***************************************************************************)
(* scanner/index.ts: the estimators                                        *)
(***************************************************************************)
HigherTimeframes == {"1h", "2h", "4h"}

\* timeframeWeights of getTimeframeAgreementScore, in tenths
TimeframeWeight(tf) ==
    CASE tf = "1m" -> 3 [] tf = "3m" -> 5 [] tf = "5m" -> 7 [] tf = "15m" -> 10
      [] tf = "30m" -> 13 [] tf = "1h" -> 17 [] tf = "2h" -> 22 [] tf = "4h" -> 30
      [] OTHER -> 10

\* getTimeframeAgreementScore(features) as the fraction num / den (0/1 when no
\* feature has a direction): agreement * weight * totalCount is maxCount * weight
getTimeframeAgreementScore(features) ==
    LET dirs == Directional(features)
        tfs == {dirs[i].timeframe : i \in 1..Len(dirs)}
        cnt(tf, d) == Cardinality({i \in 1..Len(dirs) :
                          dirs[i].timeframe = tf /\ dirs[i].direction = d})
        agree == [tf \in tfs |->
                     Max(cnt(tf, "long"), cnt(tf, "short")) * TimeframeWeight(tf)]
        possible == [tf \in tfs |->
                        (cnt(tf, "long") + cnt(tf, "short")) * TimeframeWeight(tf)]
        maxPossible == SumSet(possible, tfs)
    IN  IF maxPossible > 0
        THEN [num |-> SumSet(agree, tfs), den |-> maxPossible]
        ELSE [num |-> 0, den |-> 1]

\* getAgreementTimeframes(features, direction): timeframes with >= 2 such features
getAgreementTimeframes(features, direction) ==
    {tf \in {features[i].timeframe : i \in 1..Len(features)} :
        Cardinality({i \in 1..Len(features) :
            features[i].timeframe = tf /\ features[i].direction = direction}) >= 2}

RECURSIVE SumStrength(_)
\* features.reduce((sum, f) => sum + (f.strength || 0), 0)
SumStrength(features) ==
    IF features = <<>> THEN 0
    ELSE Head(features).strength + SumStrength(Tail(features))

\* mean of f.strength over a non-empty list, times mult, in ten-thousandths
AvgStrengthTimes(fs, mult) == (SumStrength(fs) * 100 * mult) \div Len(fs)

getVolumeConfirmationBonus(features) ==
    LET volumeFeatures == SelectSeq(features, LAMBDA f : f.name = <<"VOLUME">>)
    IN  IF Len(volumeFeatures) > 0 THEN AvgStrengthTimes(volumeFeatures, 5) ELSE 0

getMarketMomentumBonus(features) ==
    LET momentumIndicators == SelectSeq(features, LAMBDA f :
            \/ f.name = <<"RSI">> /\ f.strength > 70
            \/ f.name = <<"MACD">> /\ f.strength > 60)
    IN  Min(Len(momentumIndicators) * 20000, 80000)

getHigherTimeframeBonus(features) ==
    LET htfFeatures == SelectSeq(features, LAMBDA f :
            f.timeframe \in HigherTimeframes /\ f.direction # "null")
    IN  IF Len(htfFeatures) >= 3 THEN 80000
        ELSE IF Len(htfFeatures) >= 2 THEN 50000
        ELSE IF Len(htfFeatures) >= 1 THEN 20000
        ELSE 0

\* a plausible slip: the upper bound of the clamp is left out
clampConfidenceBelowOnly(totalConfidence) == Max(totalConfidence, 50000)

\* Math.min(Math.max(totalConfidence, 5), 95)
clampConfidence(totalConfidence) == Min(Max(totalConfidence, 50000), 950000)

\* calculateConfidence(score, indicatorCount, features), features non-empty
calculateConfidence(score, indicatorCount, features) ==
    LET baseConfidence == Min(Abs(score) * 6, 500000)
        indicatorBonus == Min(indicatorCount * 12000, 120000)
        strengthBonus == AvgStrengthTimes(features, 8)
        timeframeAgreement == getTimeframeAgreementScore(features)
        agreementBonus == (timeframeAgreement.num * 150000) \div timeframeAgreement.den
        htfBonus == getHigherTimeframeBonus(features)
        volumeBonus == getVolumeConfirmationBonus(features)
        momentumBonus == getMarketMomentumBonus(features)
        historyBonus == 30000
        contrarianBonus ==
            IF score > 0 /\ CountDirection(features, "short") > CountDirection(features, "long")
            THEN 80000 ELSE 0
        totalConfidence == baseConfidence + indicatorBonus + strengthBonus
                           + agreementBonus + htfBonus + volumeBonus + momentumBonus
                           + historyBonus + contrarianBonus
    IN  clampConfidence(totalConfidence)

\* calculateRiskReward(features, direction), in ten-thousandths
calculateRiskReward(features) ==
    LET volatility == AvgStrengthTimes(features, 1)
        baseRR == 20000 + volatility * 2
        agreementScore == getTimeframeAgreementScore(features)
        \* baseRR * (1 + agreementScore * 0.5)
        scaled == (baseRR * (2 * agreementScore.den + agreementScore.num))
                      \div (2 * agreementScore.den)
    IN  Min(scaled, 50000)

\* calculateProfitabilityScore(confidence, marketState, orderBookData,
\* volumeAnalysis, riskRewardRatio), in hundred-thousandths
calculateProfitabilityScore(confidence, marketState, orderBookData, volumeAnalysis, riskRewardRatio) ==
    LET base == confidence * 3
        trendBonus == IF marketState.trend # "neutral"
                      THEN marketState.strength * 30000
                           + (IF marketState.momentum = "accelerating" THEN 1500000 ELSE 0)
                      ELSE 0
        flowBonus == IF orderBookData.strongImbalance THEN 1000000 ELSE 0
        liquidityBonus == orderBookData.liquidityScore * 10000
        volumeBonus == IF volumeAnalysis.present
                       THEN (IF volumeAnalysis.highRatio THEN 1500000 ELSE 0)
                            + (IF volumeAnalysis.accumulation THEN 1000000 ELSE 0)
                       ELSE 0
        rrBonus == Min(riskRewardRatio * 50, 2000000)
        volAdjust == IF marketState.volatility = "high" THEN -1000000
                     ELSE IF marketState.volatility = "low" THEN 500000
                     ELSE 0
        score == base + trendBonus + flowBonus + liquidityBonus + volumeBonus
                 + rrBonus + volAdjust
    IN  Min(Max(score, 0), 10000000)

(***************************************************************************)
(* The bounded world: the symbol lists the exchange may return and the     *)
(* market data each symbol may show when it is scanned.                    *)
(***************************************************************************)
Feature(name, tf, dir, weight, strength) ==
    [name |-> name, timeframe |-> tf, direction |-> dir,
     weight |-> weight, strength |-> strength]

\* what IndicatorCalculator.calculateIndicators returns for one timeframe whose
\* indicators all point the same way (DEFAULT_WEIGHTS; RSI, MACD, BB and STOCH
\* are neutral, direction null, when their strength is 0)
Block(tf, dir, sRsi, sMacd, sBb, sStoch, sEma) ==
    LET d(x) == IF x > 0 THEN dir ELSE "null"
    IN  << Feature(<<"RSI">>, tf, d(sRsi), 100, sRsi),
           Feature(<<"MACD">>, tf, d(sMacd), 120, sMacd),
           Feature(<<"EMA", "20">>, tf, dir, 80, sEma),
           Feature(<<"EMA", "50">>, tf, dir, 64, sEma),
           Feature(<<"EMA", "CROSS">>, tf, dir, 120, sEma),
           Feature(<<"BB">>, tf, d(sBb), 100, sBb),
           Feature(<<"STOCH">>, tf, d(sStoch), 90, sStoch) >>

\* one timeframe whose EMAs point up while the oscillators point down
MixedBlock(tf) ==
    << Feature(<<"RSI">>, tf, "short", 100, 40),
       Feature(<<"MACD">>, tf, "short", 120, 30),
       Feature(<<"EMA", "20">>, tf, "long", 80, 1),
       Feature(<<"EMA", "50">>, tf, "long", 64, 1),
       Feature(<<"EMA", "CROSS">>, tf, "long", 120, 1),
       Feature(<<"BB">>, tf, "short", 100, 20),
       Feature(<<"STOCH">>, tf, "null", 90, 0) >>

\* analyzeMarketState / analyzeOrderBook / analyzeVolume / calculateTargetZones
\* results, which depend on candles only
StrongMarket ==
    [marketState |-> [trend |-> "bull", strength |-> 15, momentum |-> "accelerating",
                      volatility |-> "medium", confidence |-> 95],
     orderBookData |-> [strongImbalance |-> TRUE, liquidityScore |-> 100],
     volumeAnalysis |-> [present |-> TRUE, highRatio |-> TRUE, accumulation |-> FALSE],
     zones |-> [present |-> TRUE, far |-> FALSE]]

FairMarket ==
    [marketState |-> [trend |-> "neutral", strength |-> 50, momentum |-> "steady",
                      volatility |-> "medium", confidence |-> 50],
     orderBookData |-> [strongImbalance |-> FALSE, liquidityScore |-> 50],
     volumeAnalysis |-> [present |-> FALSE, highRatio |-> FALSE, accumulation |-> FALSE],
     zones |-> [present |-> FALSE, far |-> FALSE]]

ThinMarket ==
    [marketState |-> [trend |-> "neutral", strength |-> 50, momentum |-> "steady",
                      volatility |-> "high", confidence |-> 50],
     orderBookData |-> [strongImbalance |-> FALSE, liquidityScore |-> 0],
     volumeAnalysis |-> [present |-> TRUE, highRatio |-> FALSE, accumulation |-> FALSE],
     zones |-> [present |-> TRUE, far |-> FALSE]]

FarEntryMarket == [StrongMarket EXCEPT !.zones.far = TRUE]

UncertainMarket == [FairMarket EXCEPT !.marketState.trend = "bear",
                                       !.marketState.strength = 5,
                                       !.marketState.confidence = 5]

\* what one scanSymbol() call reads from the outside: the indicator features of
\* the timeframes that have candles, the trend strength of the higher
\* timeframes (hundredths), BTC's hourly volatility (hundredths), the market
Reading(features, trendStrength, marketVolatility, market) ==
    [features |-> features, trendStrength |-> trendStrength,
     marketVolatility |-> marketVolatility, market |-> market]

NoData == Reading(<<>>, 0, 30, FairMarket)
WeakSignal == Reading(MixedBlock("5m"), 0, 30, FairMarket)
LowScore == Reading(Block("5m", "long", 10, 10, 0, 0, 1), 150, 30, FairMarket)
Long45 == Reading(Block("5m", "long", 98, 7, 83, 50, 3), 0, 30, FairMarket)
Long45Volatile == [Long45 EXCEPT !.marketVolatility = 60]
Long51 == Reading(Block("5m", "long", 33, 5, 63, 0, 3)
                    \o Block("15m", "long", 96, 8, 63, 18, 2), 0, 30, FairMarket)
Long60 == Reading(Block("15m", "long", 56, 6, 1, 91, 3)
                    \o Block("1h", "long", 56, 6, 1, 91, 3), 50, 30, StrongMarket)
Long63 == Reading(Block("15m", "long", 41, 51, 9, 81, 1)
                    \o Block("1h", "long", 41, 51, 9, 81, 1), 50, 30, StrongMarket)
Long66 == Reading(Block("15m", "long", 81, 38, 34, 15, 1)
                    \o Block("1h", "long", 81, 38, 34, 15, 1), 50, 30, StrongMarket)
Short70 == Reading(Block("15m", "short", 69, 89, 37, 8, 0)
                    \o Block("1h", "short", 69, 89, 37, 8, 0), 50, 30, ThinMarket)
Long72 == Reading(Block("15m", "long", 80, 52, 85, 14, 0)
                    \o Block("1h", "long", 80, 52, 85, 14, 0), 50, 30, StrongMarket)
Short72 == Reading(Block("15m", "short", 37, 66, 86, 42, 0)
                    \o Block("1h", "short", 37, 66, 86, 42, 0), 50, 30, ThinMarket)
Long75 == Reading(Block("15m", "long", 86, 78, 27, 26, 0)
                    \o Block("1h", "long", 86, 78, 27, 26, 0), 50, 30, FairMarket)
Short75 == Reading(Block("15m", "short", 89, 77, 27, 24, 0)
                    \o Block("1h", "short", 89, 77, 27, 24, 0), 50, 30, FairMarket)
Long72Volatile == [Long72 EXCEPT !.marketVolatility = 60]
Long72FarEntry == [Long72 EXCEPT !.market = FarEntryMarket]
Long72Uncertain == [Long72 EXCEPT !.market = UncertainMarket]

\* the trading pairs of the world, in the forms an exchange listing or the
\* fallback list may spell them
Pair(base) == <<base, "/", "U">>
Joined(base) == <<base, "U">>
FillerBases == <<"D", "E", "F", "G", "H", "I", "J", "K">>
Fillers == [i \in 1..Len(FillerBases) |-> Pair(FillerBases[i])]
\* getTopFuturesSymbols() results: the fallback list's spelling, and a listing
\* that spells one pair in two more ways
FallbackListing ==
    Fillers \o <<Pair("L"), Pair("A"), Pair("B"), Pair("C"), Pair("M")>>
ExchangeListing ==
    Fillers \o <<Pair("L"), Joined("A"), Pair("a"), Pair("B"), Pair("C"), Pair("M")>>
SymbolLists == {FallbackListing, ExchangeListing}
Symbols == UNION {{l[i] : i \in 1..Len(l)} : l \in SymbolLists}


\* the market data a symbol may show when it is scanned
ReadingsFor(symbol) ==
    LET base == ToUpperChar(symbol[1])
    IN  CASE base = "D" -> {Long60}
          [] base = "E" -> {Short70}
          [] base \in {"F", "H", "J", "M"} -> {Long75}
          [] base \in {"G", "I", "K"} -> {Short75}
          [] base = "L" -> {NoData, Long45, Long51}
          [] base = "A" -> {NoData, Long45Volatile, Long72Volatile}
          [] base = "B" -> {WeakSignal, Long72FarEntry, Long63, Short72}
          [] OTHER -> {LowScore, Long72Uncertain, Long63, Long66, Long72, Short72}

(***************************************************************************)
(* scanner/index.ts: the active prediction map                             *)
(***************************************************************************)
NormalizedSymbols == {NormalizeSymbol(s) : s \in Symbols}

Range(s) == {s[i] : i \in 1..Len(s)}

\* Math.min(...predictions.map(p => p.confidence))
LowestConfidence(preds) ==
    CHOOSE c \in {p.confidence : p \in Range(preds)} :
        \A p \in Range(preds) : c <= p.confidence

\* this.cardCounts.get(symbol) || 0
getCardCount(symbol) ==
    IF symbol \in DOMAIN cardCounts THEN cardCounts[symbol] ELSE 0

\* the map replaced by one that holds the new entry alone
MapSetAlone(map, key, value) == [k \in {key} |-> value]

\* Map.set(key, value) on a map held as a function
MapSet(map, key, value) ==
    [k \in DOMAIN map \cup {key} |-> IF k = key THEN value ELSE map[k]]

\* a slip at the boundary: an entry expiring exactly now is kept
IsExpiredStrict(prediction, t) == prediction.expiresAt < t

\* new Date(prediction.expiresAt) <= now
IsExpired(prediction, t) == prediction.expiresAt <= t

\* cleanupExpiredPredictions(): the entries it finds expired at time t
expiredPredictions(preds, t) == SelectSeq(preds, LAMBDA p : IsExpired(p, t))

\* the outcome is computed for the expired entries, which stay in the map
deleteExpiredNever(preds, expired) == preds

\* this.activePredictions.delete(id) for every expired id
deleteExpired(preds, expired) ==
    SelectSeq(preds, LAMBDA p : p.id \notin {e.id : e \in Range(expired)})

\* a sweep that deletes one duplicate per symbol and pass: the entry that
\* comes last when the symbol's entries are sorted by confidence descending
cleanupDuplicatePredictionsOnePerPass(preds) ==
    LET same(i, j) == NormalizeSymbol(preds[i].symbol) = NormalizeSymbol(preds[j].symbol)
        last(i) == /\ \E j \in 1..Len(preds) : j # i /\ same(i, j)
                   /\ \A j \in 1..Len(preds) :
                          (j # i /\ same(i, j)) =>
                              \/ preds[j].confidence > preds[i].confidence
                              \/ preds[j].confidence = preds[i].confidence /\ j < i
        lastIds == {preds[i].id : i \in {k \in 1..Len(preds) : last(k)}}
    IN  SelectSeq(preds, LAMBDA p : p.id \notin lastIds)

\* a sweep that sorts ascending: the lowest-confidence entry of a symbol stays
cleanupDuplicatePredictionsKeepsLowest(preds) ==
    LET same(i, j) == NormalizeSymbol(preds[i].symbol) = NormalizeSymbol(preds[j].symbol)
        kept(i) == \A j \in 1..Len(preds) :
                      (j # i /\ same(i, j)) =>
                          \/ preds[j].confidence > preds[i].confidence
                          \/ preds[j].confidence = preds[i].confidence /\ i < j
        keptIds == {preds[i].id : i \in {k \in 1..Len(preds) : kept(k)}}
    IN  SelectSeq(preds, LAMBDA p : p.id \in keptIds)

RECURSIVE normalizedSymbols(_)
\* prediction.symbol.replace('/', '').toUpperCase() of each entry, in Map order
normalizedSymbols(preds) ==
    IF preds = <<>> THEN <<>>
    ELSE <<NormalizeSymbol(Head(preds).symbol)>> \o normalizedSymbols(Tail(preds))

\* cleanupDuplicatePredictions(): per normalized symbol the entries are sorted
\* by confidence descending (stable) and all but the first are deleted
cleanupDuplicatePredictions(preds) ==
    LET normalizedSymbol == normalizedSymbols(preds)
        same(i, j) == normalizedSymbol[i] = normalizedSymbol[j]
        kept(i) == \A j \in 1..Len(preds) :
                      (j # i /\ same(i, j)) =>
                          \/ preds[j].confidence < preds[i].confidence
                          \/ preds[j].confidence = preds[i].confidence /\ i < j
        keptIds == {preds[i].id : i \in {k \in 1..Len(preds) : kept(k)}}
    IN  SelectSeq(preds, LAMBDA p : p.id \in keptIds)

\* history: the entries of `before` missing from `after` left the map by `way`
NoteRemoved(before, after, way) ==
    LET gone == {p.id : p \in Range(before)} \ {p.id : p \in Range(after)}
    IN  [id \in DOMAIN removed \cup gone |-> IF id \in gone THEN way ELSE removed[id]]

(***************************************************************************)
(* The state after `new MarketScanner(wsManager, new PredictionManager())`  *)
(***************************************************************************)
NoVerdict ==
    [symbol |-> <<>>, outcome |-> "none", confidence |-> 0, evicted |-> {},
     restCalls |-> 0, restFailed |-> FALSE]

\* no scoring function has been called
NoCall == [fn |-> "none", args |-> <<>>, done |-> FALSE, result |-> <<>>]

\* a call slot of the payment handler with nothing running in it
IdlePaymentCall == [kind |-> "idle", pc |-> "idle", paymentId |-> 0, last |-> 0]

\* the payment handler after construction: no payment created; payment ids
\* are numbered in creation order, which is the Map's iteration order
NoPayments ==
    [created |-> 0,
     pendingPayments |-> {},
     status |-> [id \in 1..MaxPayments |-> "none"],
     provider |-> [id \in 1..MaxPayments |-> "waiting"],
     pastExpiry |-> {},
     calls |-> [slot \in 1..MaxPaymentCalls |-> IdlePaymentCall],
     activations |-> [id \in 1..MaxPayments |-> 0]]

IdleScan ==
    [pc |-> "idle", symbols |-> <<>>, idx |-> 0, symbolsProcessed |-> 0,
     newPredictions |-> 0, scanStartTime |-> 0, ticks |-> 0]

Init ==
    /\ now = 0
    /\ status = [isRunning |-> FALSE, errorCount |-> 0]
    /\ scanInterval = FALSE
    /\ initialScanPending = FALSE
    /\ isScanning = FALSE
    /\ errorCount = 0
    /\ activePredictions = <<>>
    /\ cardCounts = <<>>
    /\ scans = [slot \in 1..MaxSlots |-> IdleScan]
    /\ outcomeTasks = {}
    /\ dbPredictions = {}
    /\ dbOutcomes = <<>>
    /\ dbCardCounts = <<>>
    /\ admitted = [n \in NormalizedSymbols |-> <<>>]
    /\ removed = <<>>
    /\ lastVerdict = NoVerdict
    /\ stopCalled = FALSE
    /\ call = NoCall
    /\ payments = NoPayments

\* the state the scan cycles act on
scannerVars == <<status, isScanning, errorCount, activePredictions, cardCounts, scans,
                 outcomeTasks, dbPredictions, dbOutcomes, dbCardCounts, admitted, removed>>

(***************************************************************************)
(* Time passes.                                                            *)
(***************************************************************************)
\* The clock steps by TickMs, far more than the 5 s of the timer start() sets
\* for the first scan: that timer fires before the clock steps.
Tick ==
    /\ now < MaxTicks * TickMs
    /\ ~initialScanPending
    /\ \A slot \in 1..MaxSlots :
          scans[slot].pc = "scanSymbol" => scans[slot].ticks < MaxTicksInLoop
    /\ now' = now + TickMs
    /\ scans' = [slot \in 1..MaxSlots |->
                    IF scans[slot].pc = "scanSymbol"
                    THEN [scans[slot] EXCEPT !.ticks = @ + 1]
                    ELSE scans[slot]]
    /\ UNCHANGED <<payments, status, scanInterval, initialScanPending, isScanning, errorCount,
                   activePredictions, cardCounts, outcomeTasks, dbPredictions,
                   dbOutcomes, dbCardCounts, admitted, removed, lastVerdict,
                   stopCalled, call>>

\* everything but the call: the functions applied read and write no field
calleeVars == <<now, status, scanInterval, initialScanPending, isScanning,
                errorCount, activePredictions, cardCounts, scans, outcomeTasks,
                dbPredictions, dbOutcomes, dbCardCounts, admitted, removed,
                lastVerdict, stopCalled, payments>>

(***************************************************************************)
(* start(): the connection test, at most 3 times; then either the timers   *)
(* are armed or start() throws.  While start() runs, `call` holds the      *)
(* number of connection tests that failed.                                 *)
(***************************************************************************)
maxConnectionAttempts == 3

\* a plausible slip: i <= 3
connectionAttemptsLeftOffByOne(attempts) == attempts <= maxConnectionAttempts

\* for (let i = 0; i < 3; i++): the loop goes on after `attempts` failed tests
connectionAttemptsLeft(attempts) == attempts < maxConnectionAttempts

failedAttempts == IF call.fn = "start" THEN call.result ELSE 0

\* testConnection() returns false: loadMarkets() failed
TestConnectionFails ==
    /\ ~status.isRunning
    /\ ~scanInterval
    /\ ~stopCalled
    /\ call.fn \in {"none", "start"}
    /\ ~call.done
    /\ connectionAttemptsLeft(failedAttempts)
    /\ call' = [fn |-> "start", args |-> <<>>, done |-> FALSE,
                result |-> failedAttempts + 1]
    /\ UNCHANGED calleeVars

\* the loop is over and connected is false: start() throws, its catch block
\* sets status.isRunning = false and throws again; startApplication() exits
StartThrows ==
    /\ call.fn = "start"
    /\ ~call.done
    /\ ~connectionAttemptsLeft(failedAttempts)
    /\ call' = [call EXCEPT !.done = TRUE]
    /\ status' = [status EXCEPT !.isRunning = FALSE]
    /\ UNCHANGED <<payments, stopCalled, now, scanInterval, initialScanPending, isScanning,
                   errorCount, activePredictions, cardCounts, scans, outcomeTasks,
                   dbPredictions, dbOutcomes, dbCardCounts, admitted, removed,
                   lastVerdict>>

\* testConnection() returns true, at the first test or after failed ones:
\* the timers are armed
Start ==
    /\ ~status.isRunning
    /\ ~scanInterval
    /\ ~stopCalled
    /\ call.fn \in {"none", "start"}
    /\ ~call.done
    /\ connectionAttemptsLeft(failedAttempts)
    /\ call' = NoCall
    /\ status' = [status EXCEPT !.isRunning = TRUE]
    /\ scanInterval' = TRUE
    /\ initialScanPending' = TRUE
    /\ UNCHANGED <<payments, stopCalled, now, isScanning, errorCount, activePredictions, cardCounts, scans,
                   outcomeTasks, dbPredictions, dbOutcomes, dbCardCounts, admitted,
                   removed, lastVerdict>>

(***************************************************************************)
(* stop(), called by the SIGINT and SIGTERM handlers of index.ts once the  *)
(* application runs.  It clears the interval timer only; the store's       *)
(* cleanup() deletes predictions older than 7 days, of which a run of      *)
(* MaxTicks clock steps has none.                                          *)
(***************************************************************************)
Stop ==
    /\ status.isRunning
    /\ ~stopCalled
    /\ status' = [status EXCEPT !.isRunning = FALSE]
    /\ scanInterval' = FALSE
    /\ stopCalled' = TRUE
    /\ UNCHANGED <<payments, now, initialScanPending, isScanning, errorCount, activePredictions,
                   cardCounts, scans, outcomeTasks, dbPredictions, dbOutcomes,
                   dbCardCounts, admitted, removed, lastVerdict, call>>

(***************************************************************************)
(* runScan(): the guard, and the synchronous head of a cycle up to the     *)
(* await of getTopFuturesSymbols()                                         *)
(***************************************************************************)
\* the guard removed: every trigger starts a cycle
runScanNeverSkips == FALSE

\* if (this.isScanning) return;
runScanSkips == isScanning

\* calculatePredictionOutcome(prediction), suspended at the price request
OutcomeTask(prediction) ==
    [id |-> prediction.id, symbol |-> prediction.symbol,
     direction |-> prediction.direction, createdAt |-> prediction.createdAt]

BeginScan(slot) ==
    LET expired == expiredPredictions(activePredictions, now)
        alive == deleteExpired(activePredictions, expired)
        expiredIds == {p.id : p \in Range(activePredictions) \ Range(alive)}
        kept == cleanupDuplicatePredictions(alive)
    IN  /\ isScanning' = TRUE
        /\ activePredictions' = kept
        /\ outcomeTasks' = outcomeTasks \cup {OutcomeTask(p) : p \in Range(expired)}
        /\ removed' = [id \in DOMAIN removed \cup {p.id : p \in Range(activePredictions)
                                                          \ Range(kept)} |->
                          IF id \in expiredIds THEN "expiry"
                          ELSE IF id \in DOMAIN removed THEN removed[id]
                          ELSE "dedup"]
        /\ scans' = [scans EXCEPT ![slot] =
                        [pc |-> "getSymbols", symbols |-> <<>>, idx |-> 0,
                         symbolsProcessed |-> 0, newPredictions |-> 0,
                         scanStartTime |-> now, ticks |-> 0]]
        /\ UNCHANGED <<status, errorCount, cardCounts, dbPredictions, dbOutcomes,
                       dbCardCounts, admitted>>

FreeSlots == {slot \in 1..MaxSlots : scans[slot].pc = "idle"}

\* a call of runScan()
runScan ==
    IF runScanSkips
    THEN UNCHANGED scannerVars
    ELSE /\ FreeSlots # {}
         /\ BeginScan(CHOOSE slot \in FreeSlots : \A other \in FreeSlots : slot <= other)

\* the setInterval callback of start(): if (!this.isScanning) await this.runScan()
IntervalFire ==
    /\ scanInterval
    /\ IF ~isScanning
       THEN runScan
       ELSE UNCHANGED scannerVars
    /\ UNCHANGED <<payments, call, stopCalled, now, scanInterval, initialScanPending, lastVerdict>>

\* the setTimeout callback of start(): await this.runScan()
InitialScan ==
    /\ initialScanPending
    /\ initialScanPending' = FALSE
    /\ runScan
    /\ UNCHANGED <<payments, call, stopCalled, now, scanInterval, lastVerdict>>

\* forceRescan(), behind POST /api/scan; the server listens once start() returned
ForceRescan ==
    /\ status.isRunning
    /\ IF ~isScanning
       THEN runScan
       ELSE UNCHANGED scannerVars
    /\ UNCHANGED <<payments, call, stopCalled, now, scanInterval, initialScanPending, lastVerdict>>

\* getTopFuturesSymbols() returns: the exchange's listing or the fallback list
GetSymbols(slot) ==
    /\ scans[slot].pc = "getSymbols"
    /\ \E symbols \in SymbolLists :
          scans' = [scans EXCEPT ![slot].pc = "scanSymbol",
                                 ![slot].symbols = symbols,
                                 ![slot].idx = 1]
    /\ UNCHANGED <<payments, call, stopCalled, now, status, scanInterval, initialScanPending, isScanning,
                   errorCount, activePredictions, cardCounts, outcomeTasks,
                   dbPredictions, dbOutcomes, dbCardCounts, admitted, removed,
                   lastVerdict>>

(***************************************************************************)
(* scanSymbol(), shouldCreatePrediction(), createPrediction()              *)
(***************************************************************************)
\* what a scanSymbol() call comes to: the outcome, the confidence once it is
\* computed, and for an admission the new entry, the evicted entry's id and
\* the thresholds that were in force
Verdict(outcome, confidence, prediction, evicted, inForce) ==
    [outcome |-> outcome, confidence |-> confidence, prediction |-> prediction,
     evicted |-> evicted, inForce |-> inForce]

Rejected(outcome, confidence) == Verdict(outcome, confidence, <<>>, {}, <<>>)

\* the score threshold of scanSymbol(): 2.0, 1.8 for a strong trend or high
\* agreement, 1.5 for both very strong, and at most 1.6 for a long signal
MinScore(trendStrength, agreementScore, score) ==
    LET lenient == IF \/ trendStrength > 100
                      \/ agreementScore.num * 10 > agreementScore.den * 8
                   THEN 18000 ELSE 20000
        veryStrong == IF /\ trendStrength > 200
                         /\ agreementScore.num * 10 > agreementScore.den * 9
                      THEN 15000 ELSE lenient
    IN  IF score > 0 THEN Min(veryStrong, 16000) ELSE veryStrong

\* the minimum confidence left at 40 whatever the volatility
DynamicMinConfidenceFlat(marketVolatility) == 400000

\* marketVolatility > 0.5 ? 50 : 40
DynamicMinConfidence(marketVolatility) ==
    IF marketVolatility > 50 THEN 500000 ELSE 400000

\* the replacement test without its margin
BeatsLowestNoMargin(confidence, lowestConfidence) == confidence > lowestConfidence

\* confidence > lowestConfidence + 5
BeatsLowest(confidence, lowestConfidence) ==
    confidence > lowestConfidence + admissionMargin

\* the free-slot test taken one entry too early
HasFreeSlotOffByOne(size) == size < maxActivePredictions - 1

\* this.activePredictions.size < this.maxActivePredictions
HasFreeSlot(size) == size < maxActivePredictions

\* shouldCreatePrediction(symbol, confidence): "ok" or the reason for false
shouldCreatePrediction(symbol, confidence, marketVolatility) ==
    LET normalizedSymbol == NormalizeSymbol(symbol)
        existingPrediction ==
            \E p \in Range(activePredictions) :
                \/ NormalizeSymbol(p.symbol) = normalizedSymbol
                \/ p.symbol = symbol
                \/ p.symbol = normalizedSymbol
    IN  IF existingPrediction THEN "duplicate"
        ELSE IF confidence < DynamicMinConfidence(marketVolatility) THEN "lowConfidence"
        ELSE IF HasFreeSlot(Len(activePredictions)) THEN "ok"
        ELSE IF BeatsLowest(confidence, LowestConfidence(activePredictions)) THEN "ok"
        ELSE "margin"

\* p.profitabilityScore || p.confidence, in hundred-thousandths
EvictionKey(p) ==
    IF p.profitabilityScore # 0 THEN p.profitabilityScore ELSE p.confidence * 10

\* predictions.sort((a, b) => key(a) - key(b))[0] with the key EvictionKey:
\* Array.prototype.sort is stable, so among the entries with the least key the
\* first in Map order comes first
SortedFirst(preds) ==
    preds[CHOOSE i \in 1..Len(preds) :
            \A j \in 1..Len(preds) :
                /\ EvictionKey(preds[i]) <= EvictionKey(preds[j])
                /\ j < i => EvictionKey(preds[j]) > EvictionKey(preds[i])]

\* createPrediction() admitting without making room in a full map
MakeRoomNever(preds) == {}

\* the entry createPrediction() deletes before it adds one: none below
\* capacity, else the first of the entries sorted by EvictionKey
MakeRoom(preds) ==
    IF Len(preds) >= maxActivePredictions
    THEN {SortedFirst(preds).id}
    ELSE {}

\* The values scanSymbol() and createPrediction() compute from the candles and
\* the card count alone, in the order the source computes them.  Nothing is
\* computed from an empty feature list: scanSymbol() returns before.
Estimate(reading, cardCount) ==
    LET features == reading.features
        market == reading.market
        agreementScore == getTimeframeAgreementScore(features)
        result == computeScore(features, cardCount)
        direction == IF result.score > 0 THEN "long" ELSE "short"
        timeframesAgreement == getAgreementTimeframes(features, direction)
        confidence == calculateConfidence(result.score, result.indicatorCount, features)
        riskRewardRatio == calculateRiskReward(features)
    IN  IF Len(features) = 0
        THEN [hasData |-> FALSE]
        ELSE [hasData |-> TRUE,
              agreementScore |-> agreementScore,
              score |-> result.score,
              indicatorCount |-> result.indicatorCount,
              minScore |-> MinScore(reading.trendStrength, agreementScore, result.score),
              direction |-> direction,
              estimatedRunMs |-> estimateRunDuration(Abs(result.score),
                                                     timeframesAgreement),
              confidence |-> confidence,
              riskRewardRatio |-> riskRewardRatio,
              profitabilityScore |->
                  calculateProfitabilityScore(confidence, market.marketState,
                      market.orderBookData, market.volumeAnalysis, riskRewardRatio)]

\* the card counts a symbol can have: one step per admission
CardCounts == (0 - MaxAdmissions)..MaxAdmissions

\* Estimate, tabulated over the bounded world (@@ makes the table explicit)
Estimates ==
    [reading \in UNION {ReadingsFor(symbol) : symbol \in Symbols}, cardCount \in CardCounts
        |-> Estimate(reading, cardCount)] @@ <<>>

\* createPrediction(symbol, direction, scoreResult, estimatedRunMs, cardCount,
\* features) with the values `est` it computes, in the market state `market`
createPrediction(symbol, cardCount, est, market, inForce) ==
    LET minRiskReward == IF est.profitabilityScore > 8000000 THEN 15000 ELSE 20000
        normalizedSymbol == NormalizeSymbol(symbol)
        existingPrediction ==
            \E p \in Range(activePredictions) : NormalizeSymbol(p.symbol) = normalizedSymbol
        full == Len(activePredictions) >= maxActivePredictions
        lowest == SortedFirst(activePredictions)
        \* the id's timestamp and random suffix, as the admission's serial number
        id == <<normalizedSymbol, Len(admitted[normalizedSymbol]) + 1>>
        prediction ==
            [id |-> id, symbol |-> normalizedSymbol, direction |-> est.direction,
             score |-> est.score, confidence |-> est.confidence,
             estimatedRunMs |-> est.estimatedRunMs, createdAt |-> now,
             expiresAt |-> now + est.estimatedRunMs, cardCount |-> cardCount,
             profitabilityScore |-> est.profitabilityScore]
    IN  IF market.zones.present /\ market.zones.far
            THEN Rejected("farEntry", est.confidence)
        ELSE IF est.riskRewardRatio < minRiskReward
            THEN Rejected("riskReward", est.confidence)
        ELSE IF market.marketState.confidence < 30
            THEN Rejected("uncertainMarket", est.confidence)
        ELSE IF existingPrediction THEN Rejected("duplicate", est.confidence)
        ELSE IF full /\ est.profitabilityScore <= EvictionKey(lowest) + 1000000
            THEN Rejected("notBetter", est.confidence)
        ELSE Verdict("created", est.confidence, <<prediction>>,
                     MakeRoom(activePredictions), inForce)

\* scanSymbol(symbol) once the candles of `reading` are in, with the card
\* count it read and the values `est` it computes from both
scanSymbolWith(symbol, reading, cardCount, est) ==
    LET should == shouldCreatePrediction(symbol, est.confidence, reading.marketVolatility)
        inForce == <<[minScore |-> est.minScore,
                      minConfidence |-> DynamicMinConfidence(reading.marketVolatility),
                      marketVolatility |-> reading.marketVolatility,
                      direction |-> est.direction]>>
    IN  IF ~est.hasData THEN Rejected("noData", 0)
        ELSE IF /\ reading.trendStrength < 30
                /\ est.agreementScore.num * 10 < est.agreementScore.den * 6
            THEN Rejected("weakSignal", 0)
        ELSE IF Abs(est.score) < est.minScore THEN Rejected("lowScore", 0)
        ELSE IF ~(est.estimatedRunMs >= 30 * 60000 /\ est.estimatedRunMs <= 4 * 60 * 60000)
            THEN Rejected("duration", 0)
        ELSE IF should # "ok" THEN Rejected(should, est.confidence)
        ELSE createPrediction(symbol, cardCount, est, reading.market, inForce)

\* const cardCount = this.cardCounts.get(symbol) || 0, and the rest of scanSymbol()
scanSymbol(symbol, reading) ==
    scanSymbolWith(symbol, reading, getCardCount(symbol),
                   Estimates[reading, getCardCount(symbol)])

(***************************************************************************)
(* One iteration of the loop of runScan(): scanSymbol() on the next symbol *)
(* and the bookkeeping after it.  After the last iteration the tail of     *)
(* runScan() (final duplicate sweep, status, isScanning = false) runs in   *)
(* the same step: nothing in it waits for I/O.                             *)
(***************************************************************************)
\* the evicted entry settled like an expired one
OutcomeTasksOnEvictionAll(evictedPredictions) ==
    {OutcomeTask(p) : p \in evictedPredictions}

\* createPrediction() deletes the evicted entry and nothing else: no call of
\* calculatePredictionOutcome() for it
OutcomeTasksOnEviction(evictedPredictions) == {}

\* a catch around the loop instead of inside it
ThrowEndsLoopAlways(threw) == threw

\* the try/catch of runScan() is inside the for loop: the catch block logs,
\* counts the error, and the loop goes on to the next symbol
ThrowEndsLoop(threw) == FALSE

\* the symbols whose scan may raise an exception past the try/catch of the
\* timeframe loop
FaultySymbols == {Pair("B"), Pair("M")}

\* the symbols whose candles the websocket store may lack
RestSymbols == {Pair("L")}

\* what the exchange answers to a fetchOHLCV call and to the calls that would
\* follow it: candles at once, candles at the second call, no candles
ExchangeAnswers == {<<"ok">>, <<"error", "ok">>, <<"error", "error", "error">>}

\* no call to the exchange was needed
NoFetch == [calls |-> 0, failed |-> FALSE]

\* ExchangeClient.getOHLCV(): one fetchOHLCV call; on an error the catch block
\* logs and returns [] (convertOHLCV is not reached: ccxtData.length is 0)
getOHLCV(answers) == [calls |-> 1, failed |-> answers[1] # "ok"]

\* the failed fetch counted as an error of the scanner
FetchErrorCountedAlways(failed) == failed

\* a failed fetch is logged by getOHLCV() and comes back as []: no catch
\* block is entered in scanSymbol() or runScan(), errorCount stays
FetchErrorCounted(failed) == FALSE

\* the insertion lost whenever an entry was deleted to make room for it
DeleteWithoutSet(preds, evicted, prediction) ==
    IF evicted = {} THEN Append(preds, prediction)
    ELSE SelectSeq(preds, LAMBDA p : p.id \notin evicted)

\* this.activePredictions.delete(lowest.id) when at capacity, then
\* this.activePredictions.set(prediction.id, prediction): nothing between the
\* two waits or throws
DeleteAndSet(preds, evicted, prediction) ==
    Append(SelectSeq(preds, LAMBDA p : p.id \notin evicted), prediction)

\* a reset at the end of the try block instead of a finally block
isScanningAfterCycleNoFinally(escaped) == escaped

\* finally { this.isScanning = false }: whether or not an exception escaped
\* the try block of runScan()
isScanningAfterCycle(escaped) == FALSE

\* the effects of one scanSymbol() call that came to `verdict`, and of the loop
\* bookkeeping after it; `emitThrew`: after the last symbol a listener of
\* this.emit(..) throws, and the outer catch block of runScan() takes over
AfterScanSymbol(slot, scan, symbol, verdict, fetch, emitThrew) ==
    LET wasCreated == verdict.outcome = "created"
        threw == verdict.outcome = "threw"
        normalizedSymbol == NormalizeSymbol(symbol)
        prediction == verdict.prediction[1]
        delta == IF prediction.direction = "long" THEN 1 ELSE -1
        afterCreate ==
            IF wasCreated
            THEN DeleteAndSet(activePredictions, verdict.evicted, prediction)
            ELSE activePredictions
        \* a throw leaves the try block before symbolsProcessed++ and the
        \* two break tests
        symbolsProcessed == scan.symbolsProcessed + (IF threw THEN 0 ELSE 1)
        newPredictions == scan.newPredictions + (IF wasCreated THEN 1 ELSE 0)
        full == Len(afterCreate) >= maxActivePredictions
        shouldStop == /\ ~threw
                      /\ full
                      /\ symbolsProcessed >= 15
                      /\ LowestConfidence(afterCreate) > 870000
                      /\ newPredictions = 0
                      /\ symbolsProcessed % 5 = 0
        comprehensive == /\ ~threw
                         /\ symbolsProcessed >= 25
                         /\ full
                         /\ LowestConfidence(afterCreate) > 820000
        loopEnds == \/ shouldStop
                    \/ comprehensive
                    \/ ThrowEndsLoop(threw)
                    \/ scan.idx = Len(scan.symbols)
        afterScan == IF loopEnds THEN cleanupDuplicatePredictions(afterCreate)
                     ELSE afterCreate
        swept == {p.id : p \in Range(afterCreate) \ Range(afterScan)}
    IN  /\ wasCreated => Len(admitted[normalizedSymbol]) < MaxAdmissions
        /\ threw => errorCount < MaxErrors
        /\ emitThrew => (loopEnds /\ ~threw /\ errorCount < MaxErrors)
        /\ errorCount' = IF threw \/ emitThrew \/ FetchErrorCounted(fetch.failed)
                         THEN errorCount + 1 ELSE errorCount
        /\ activePredictions' = afterScan
        /\ cardCounts' =
               IF wasCreated
               THEN MapSet(cardCounts, normalizedSymbol, prediction.cardCount + delta)
               ELSE cardCounts
        /\ outcomeTasks' =
               outcomeTasks \cup
                   OutcomeTasksOnEviction({p \in Range(activePredictions) :
                                              p.id \in verdict.evicted})
        /\ dbPredictions' = IF wasCreated THEN dbPredictions \cup {prediction.id}
                            ELSE dbPredictions
        /\ dbCardCounts' =
               IF wasCreated
               THEN MapSet(dbCardCounts, normalizedSymbol,
                           (IF normalizedSymbol \in DOMAIN dbCardCounts
                            THEN dbCardCounts[normalizedSymbol] ELSE 0) + delta)
               ELSE dbCardCounts
        /\ admitted' = IF wasCreated
                       THEN [admitted EXCEPT ![normalizedSymbol] =
                                 Append(@, verdict.inForce[1])]
                       ELSE admitted
        /\ removed' = [id \in DOMAIN removed \cup verdict.evicted \cup swept |->
                          IF id \in verdict.evicted THEN "eviction"
                          ELSE IF id \in swept THEN "dedup"
                          ELSE removed[id]]
        /\ scans' = [scans EXCEPT ![slot] =
                        IF loopEnds THEN IdleScan
                        ELSE [scan EXCEPT !.idx = @ + 1,
                                          !.symbolsProcessed = symbolsProcessed,
                                          !.newPredictions = newPredictions]]
        /\ isScanning' = IF loopEnds THEN isScanningAfterCycle(emitThrew) ELSE isScanning
        /\ status' = IF loopEnds
                     THEN [status EXCEPT !.errorCount = errorCount']
                     ELSE status
        /\ lastVerdict' = IF loopEnds
                          THEN (IF emitThrew THEN [NoVerdict EXCEPT !.outcome = "escaped"]
                                ELSE NoVerdict)
                          ELSE [symbol |-> symbol, outcome |-> verdict.outcome,
                                confidence |-> verdict.confidence,
                                evicted |-> verdict.evicted,
                                restCalls |-> fetch.calls,
                                restFailed |-> fetch.failed]

\* the websocket store has the candles: no call to the exchange
ScanSymbol(slot) ==
    /\ scans[slot].pc = "scanSymbol"
    /\ \E reading \in ReadingsFor(scans[slot].symbols[scans[slot].idx]) :
          AfterScanSymbol(slot, scans[slot], scans[slot].symbols[scans[slot].idx],
                          scanSymbol(scans[slot].symbols[scans[slot].idx], reading),
                          NoFetch, FALSE)
    /\ UNCHANGED <<payments, call, stopCalled, now, scanInterval, initialScanPending, dbOutcomes>>

\* the websocket store has fewer than 50 candles of the symbol: scanSymbol()
\* asks the exchange, which answers a call and the calls after it with
\* `answers`; without candles the feature list stays empty
ScanSymbolRest(slot) ==
    /\ scans[slot].pc = "scanSymbol"
    /\ scans[slot].symbols[scans[slot].idx] \in RestSymbols
    /\ \E reading \in ReadingsFor(scans[slot].symbols[scans[slot].idx]) :
       \E answers \in ExchangeAnswers :
          LET fetch == getOHLCV(answers)
              seen == IF fetch.failed THEN [reading EXCEPT !.features = <<>>]
                      ELSE reading
          IN  AfterScanSymbol(slot, scans[slot], scans[slot].symbols[scans[slot].idx],
                              scanSymbol(scans[slot].symbols[scans[slot].idx], seen),
                              fetch, FALSE)
    /\ UNCHANGED <<payments, call, stopCalled, now, scanInterval, initialScanPending, dbOutcomes>>

\* scanSymbol() raises an exception past the try/catch of its timeframe loop,
\* before anything is inserted: the catch block of runScan() takes over
ScanSymbolThrows(slot) ==
    /\ scans[slot].pc = "scanSymbol"
    /\ scans[slot].symbols[scans[slot].idx] \in FaultySymbols
    /\ AfterScanSymbol(slot, scans[slot], scans[slot].symbols[scans[slot].idx],
                       Rejected("threw", 0), NoFetch, FALSE)
    /\ UNCHANGED <<payments, call, stopCalled, now, scanInterval, initialScanPending, dbOutcomes>>

\* the last scanSymbol() of the cycle returns, the status is updated, and a
\* listener of 'predictions-update' or 'scanner-status' throws: the outer
\* catch block counts the error, the finally block runs
ScanSymbolEmitThrows(slot) ==
    /\ scans[slot].pc = "scanSymbol"
    /\ \E reading \in ReadingsFor(scans[slot].symbols[scans[slot].idx]) :
          AfterScanSymbol(slot, scans[slot], scans[slot].symbols[scans[slot].idx],
                          scanSymbol(scans[slot].symbols[scans[slot].idx], reading),
                          NoFetch, TRUE)
    /\ UNCHANGED <<payments, call, stopCalled, now, scanInterval, initialScanPending, dbOutcomes>>

(***************************************************************************)
(* forceCleanupDuplicates(), behind POST /api/cleanup-duplicates           *)
(***************************************************************************)
\* a manual cleanup that sweeps expired entries as well
forceCleanupDuplicatesAndExpired(preds) ==
    cleanupDuplicatePredictions(
        SelectSeq(preds, LAMBDA prediction : ~IsExpired(prediction, now)))

\* this.cleanupDuplicatePredictions(), the size difference is only reported
forceCleanupDuplicates(preds) == cleanupDuplicatePredictions(preds)

ForceCleanupDuplicates ==
    /\ status.isRunning
    /\ activePredictions' = forceCleanupDuplicates(activePredictions)
    /\ removed' = NoteRemoved(activePredictions, activePredictions', "dedup")
    /\ UNCHANGED <<payments, call, stopCalled, now, status, scanInterval, initialScanPending, isScanning,
                   errorCount, cardCounts, scans, outcomeTasks, dbPredictions,
                   dbOutcomes, dbCardCounts, admitted, lastVerdict>>

(***************************************************************************)
(* calculatePredictionOutcome() resumes: the price request of an expired   *)
(* prediction returns                                                      *)
(***************************************************************************)
\* getCurrentPrice() results: null (0 here) on any error, else a price
NoPrice == 0
Prices == {125}
\* the latest 1m candle close the websocket cache holds, if any
CandleCloses == {100}

\* a / b rounded towards 0: like the floating-point quotient, the rounded
\* quotient of -a is the negation of that of a
Quotient(a, b) == IF a >= 0 THEN a \div b ELSE -((-a) \div b)

\* a plausible slip: the long formula for either direction
pnlPercentAsLong(direction, entryPrice, currentPrice) ==
    Quotient((currentPrice - entryPrice) * 10000, entryPrice)

\* pnlPercent of calculatePredictionOutcome(), in hundredths of a percent
pnlPercent(direction, entryPrice, currentPrice) ==
    IF direction = "long"
    THEN Quotient((currentPrice - entryPrice) * 10000, entryPrice)
    ELSE Quotient((entryPrice - currentPrice) * 10000, entryPrice)

ResolveOutcome ==
    \E task \in outcomeTasks :
    \E currentPrice \in Prices \cup {NoPrice} :
    \E candle \in CandleCloses \cup {NoPrice} :
        LET entryPrice == IF candle # NoPrice THEN candle ELSE currentPrice
        IN  /\ outcomeTasks' = outcomeTasks \ {task}
            /\ dbOutcomes' =
                   IF currentPrice # NoPrice
                   THEN MapSet(dbOutcomes, task.id,
                               [pnlPercent |->
                                    pnlPercent(task.direction, entryPrice, currentPrice),
                                closedAt |-> now,
                                actualDuration |-> now - task.createdAt])
                   ELSE dbOutcomes
            /\ UNCHANGED <<payments, call, stopCalled, now, status, scanInterval, initialScanPending, isScanning,
                           errorCount, activePredictions, cardCounts, scans,
                           dbPredictions, dbCardCounts, admitted, removed,
                           lastVerdict>>

\* what PredictionManager has been asked to write about predictions: a
\* savePrediction() per id in its predictions map, a savePredictionOutcome()
\* per id in its outcomes map (it has no other write for a prediction)
dbWrites ==
    {<<"savePrediction", id>> : id \in dbPredictions}
        \cup {<<"savePredictionOutcome", id>> : id \in DOMAIN dbOutcomes}

Next ==
    \/ Tick
    \/ Start
    \/ Stop
    \/ IntervalFire
    \/ InitialScan
    \/ ForceRescan
    \/ \E slot \in 1..MaxSlots : GetSymbols(slot)
    \/ \E slot \in 1..MaxSlots : ScanSymbol(slot)
    \/ ForceCleanupDuplicates
    \/ ResolveOutcome

Spec == Init /\ [][Next]_vars

\* The timers of start() fire as long as they are armed; nothing makes a call
\* to the exchange return, so the steps that resume a cycle are not fair.
TimerSpec ==
    /\ Spec
    /\ WF_vars(Start)
    /\ WF_vars(InitialScan)
    /\ WF_vars(IntervalFire)

(***************************************************************************)
(* The scanner under faults and shutdown: exchange calls that fail,        *)
(* exceptions in scanSymbol(), stop() at any moment.  The clock stands     *)
(* still in these runs, so nothing expires.                                *)
(***************************************************************************)
FaultNext ==
    \/ Start
    \/ TestConnectionFails
    \/ StartThrows
    \/ Stop
    \/ IntervalFire
    \/ InitialScan
    \/ ForceRescan
    \/ \E slot \in 1..MaxSlots : GetSymbols(slot)
    \/ \E slot \in 1..MaxSlots : ScanSymbol(slot)
    \/ \E slot \in 1..MaxSlots : ScanSymbolRest(slot)
    \/ \E slot \in 1..MaxSlots : ScanSymbolThrows(slot)
    \/ \E slot \in 1..MaxSlots : ScanSymbolEmitThrows(slot)
    \/ ForceCleanupDuplicates

FaultSpec == Init /\ [][FaultNext]_vars

(***************************************************************************)
(* ingest/exchange.ts: the second MarketScanner, with the portfolio        *)
(* balance check.  The tail of its scanSymbol(): a candidate of a given    *)
(* confidence and direction meets an active map of some longs and shorts.  *)
(***************************************************************************)
\* the balance check looking at long pile-ups only
isImbalancedLongsOnly(longCount, shortCount) == longCount >= 7 /\ shortCount <= 1

\* (longCount >= 7 && shortCount <= 1) || (shortCount >= 7 && longCount <= 1)
isImbalanced(longCount, shortCount) ==
    \/ longCount >= 7 /\ shortCount <= 1
    \/ shortCount >= 7 /\ longCount <= 1

\* currentPredictions.filter(p => p.direction === direction).length
DirectionCount(preds, direction) ==
    Cardinality({i \in 1..Len(preds) : preds[i].direction = direction})

\* shouldCreatePrediction(symbol, confidence) of the variant: "ok" or the
\* reason for false
variantShouldCreatePrediction(preds, symbol, confidence) ==
    LET normalizedSymbol == NormalizeSymbol(symbol)
        existingPrediction ==
            \E p \in Range(preds) : NormalizeSymbol(p.symbol) = normalizedSymbol
    IN  IF existingPrediction THEN "duplicate"
        ELSE IF /\ isImbalanced(DirectionCount(preds, "long"),
                                DirectionCount(preds, "short"))
                /\ confidence < 850000
            THEN "imbalanced"
        ELSE IF confidence < 650000 THEN "lowConfidence"
        ELSE IF Len(preds) < maxActivePredictions THEN "ok"
        ELSE IF confidence > LowestConfidence(preds) + 150000 THEN "ok"
        ELSE "margin"

\* predictions.sort((a, b) => a.confidence - b.confidence)[0] (stable sort)
variantLowest(preds) ==
    preds[CHOOSE i \in 1..Len(preds) :
            \A j \in 1..Len(preds) :
                /\ preds[i].confidence <= preds[j].confidence
                /\ j < i => preds[j].confidence > preds[i].confidence]

\* an active entry of the variant, as far as its decisions read it
VariantEntry(symbol, serial, direction, confidence) ==
    [id |-> <<symbol, serial>>, symbol |-> symbol, direction |-> direction,
     confidence |-> confidence]

RECURSIVE VariantMap(_, _)
\* an active map of `longs` long entries followed by `shorts` short ones
VariantMap(longs, shorts) ==
    IF longs + shorts = 0 THEN <<>>
    ELSE Append(IF shorts > 0 THEN VariantMap(longs, shorts - 1)
                ELSE VariantMap(longs - 1, 0),
                VariantEntry(NormalizeSymbol(FallbackListing[longs + shorts]), 0,
                             IF shorts > 0 THEN "short" ELSE "long",
                             700000 + 10000 * (longs + shorts)))

\* the maps a candidate may meet: up to capacity, balanced or piled up
VariantMaps ==
    {VariantMap(longs, shorts) : longs \in {0, 1, 2, 6, 7, 8}, shorts \in {0, 1, 2}}
        \cup {VariantMap(longs, shorts) : longs \in {0, 1, 2}, shorts \in {6, 7, 8}}

\* candidates: a pair that is not active, one that may be, and the
\* confidences around the thresholds 65 and 85
VariantSymbols == {Pair("M"), Pair("D")}
VariantConfidences == {640000, 840000, 850000, 950000}

VariantInit ==
    /\ now = 0
    /\ status = [isRunning |-> TRUE, errorCount |-> 0]
    /\ scanInterval = TRUE
    /\ initialScanPending = FALSE
    /\ isScanning = TRUE
    /\ errorCount = 0
    /\ activePredictions \in VariantMaps
    /\ cardCounts = <<>>
    /\ scans = [slot \in 1..MaxSlots |-> IdleScan]
    /\ outcomeTasks = {}
    /\ dbPredictions = {}
    /\ dbOutcomes = <<>>
    /\ dbCardCounts = <<>>
    /\ admitted = [n \in NormalizedSymbols |-> <<>>]
    /\ removed = <<>>
    /\ lastVerdict = NoVerdict
    /\ stopCalled = FALSE
    /\ call = NoCall
    /\ payments = NoPayments

\* if (confidence >= minConfidence && await this.shouldCreatePrediction(..))
\*     return await this.createPrediction(..)
VariantEvaluate ==
    \E symbol \in VariantSymbols, confidence \in VariantConfidences,
       direction \in {"long", "short"}, trendAligned \in BOOLEAN :
        LET normalizedSymbol == NormalizeSymbol(symbol)
            should == variantShouldCreatePrediction(activePredictions, symbol,
                                                    confidence)
            outcome == IF confidence < 650000 THEN "lowConfidence"
                       ELSE IF should # "ok" THEN should
                       ELSE IF ~trendAligned THEN "counterTrend"
                       ELSE "created"
            evicted == IF Len(activePredictions) >= maxActivePredictions
                       THEN {variantLowest(activePredictions).id}
                       ELSE {}
            cardCount == getCardCount(symbol)
            delta == IF direction = "long" THEN 1 ELSE -1
            prediction ==
                VariantEntry(normalizedSymbol, Len(admitted[normalizedSymbol]) + 1,
                             direction, confidence)
        IN  /\ lastVerdict' = [symbol |-> symbol, outcome |-> outcome,
                               confidence |-> confidence,
                               evicted |-> IF outcome = "created" THEN evicted ELSE {},
                               restCalls |-> 0, restFailed |-> FALSE]
            /\ IF outcome = "created"
               THEN /\ Len(admitted[normalizedSymbol]) < MaxAdmissions
                    /\ activePredictions' =
                           DeleteAndSet(activePredictions, evicted, prediction)
                    /\ removed' = [id \in DOMAIN removed \cup evicted |-> "eviction"]
                    /\ cardCounts' = MapSet(cardCounts, normalizedSymbol,
                                            cardCount + delta)
                    /\ dbPredictions' = dbPredictions \cup {prediction.id}
                    /\ dbCardCounts' =
                           MapSet(dbCardCounts, normalizedSymbol,
                                  (IF normalizedSymbol \in DOMAIN dbCardCounts
                                   THEN dbCardCounts[normalizedSymbol] ELSE 0) + delta)
                    /\ admitted' = [admitted EXCEPT ![normalizedSymbol] =
                                        Append(@, [direction |-> direction])]
               ELSE UNCHANGED <<activePredictions, removed, cardCounts, dbPredictions,
                                dbCardCounts, admitted>>
            /\ UNCHANGED <<payments, now, status, scanInterval, initialScanPending, isScanning,
                           errorCount, scans, outcomeTasks, dbOutcomes, stopCalled, call>>

VariantNext == VariantEvaluate

VariantSpec == VariantInit /\ [][VariantNext]_vars

(***************************************************************************)
(* scanner/position-sizing.ts.  Confidence in percent, risk/reward ratio   *)
(* and volatility in tenths; the fractions of the portfolio are exact      *)
(* quotients num / den with den > 0, the returned percentages tenths of a  *)
(* percent.                                                                *)
(***************************************************************************)
Fraction(num, den) == [num |-> num, den |-> den]

\* a plausible slip: the ceiling is not applied
MinFractionUncapped(f, ceiling) == f

\* Math.min(f, ceiling)
MinFraction(f, ceiling) ==
    IF f.num * ceiling.den <= ceiling.num * f.den THEN f ELSE ceiling

\* Math.round(f * 1000): floor(f * 1000 + 0.5) (\div rounds down)
RoundThousandths(f) == (2 * 1000 * f.num + f.den) \div (2 * f.den)

\* maxRiskPerTrade = 0.02, maxPositionSize = 0.10
maxRiskPerTrade == Fraction(2, 100)
maxPositionSize == Fraction(10, 100)

\* calculatePositionSize(confidence, riskRewardRatio, volatility)
calculatePositionSize(confidence, riskRewardRatio, volatility) ==
    LET \* Math.min(confidence / 100, 0.95), in hundredths
        winProbability == Min(confidence, 95)
        lossProbability == 100 - winProbability
        \* (odds * winProbability - lossProbability) / odds
        kellyFraction == Fraction(riskRewardRatio * winProbability - 10 * lossProbability,
                                  100 * riskRewardRatio)
        \* Math.max(0.5, 1 - volatility), in tenths
        volatilityMultiplier == Max(5, 10 - volatility)
        volatilityAdjusted == Fraction(kellyFraction.num * volatilityMultiplier,
                                       kellyFraction.den * 10)
        \* Math.max(0, volatilityAdjusted * 0.25)
        conservativeKelly == Fraction(Max(0, volatilityAdjusted.num),
                                      volatilityAdjusted.den * 4)
        suggestedSize == MinFraction(conservativeKelly, maxPositionSize)
        \* Math.min(suggestedSize / riskRewardRatio, this.maxRiskPerTrade)
        maxRisk == MinFraction(Fraction(suggestedSize.num * 10,
                                        suggestedSize.den * riskRewardRatio),
                               maxRiskPerTrade)
    IN  [confidence |-> confidence,
         suggestedSize |-> RoundThousandths(suggestedSize),
         maxRisk |-> RoundThousandths(maxRisk),
         kellyFraction |-> RoundThousandths(kellyFraction),
         volatilityAdjusted |-> RoundThousandths(volatilityAdjusted)]

(***************************************************************************)
(* scanner/score.ts and the estimators as functions: computeScore(),       *)
(* estimateRunDuration() and calculateConfidence() applied to the feature  *)
(* lists IndicatorCalculator.calculateIndicators() can return              *)
(***************************************************************************)
Directions == {"long", "short"}

\* the direction of an oscillator: long, short, or null (neutral)
OscillatorDirections == Directions \cup {"null"}

\* RSI, MACD, BB and STOCH of one timeframe; a neutral one has strength 0
Oscillators(tf, rsi, macd, bb, stoch) ==
    LET s(d, x) == IF d = "null" THEN 0 ELSE x
    IN  << Feature(<<"RSI">>, tf, rsi, 100, s(rsi, 80)),
           Feature(<<"MACD">>, tf, macd, 120, s(macd, 70)),
           Feature(<<"BB">>, tf, bb, 100, s(bb, 30)),
           Feature(<<"STOCH">>, tf, stoch, 90, s(stoch, 50)) >>

\* EMA_20, EMA_50 and EMA_CROSS of one timeframe: pushed together, each long
\* or short, or not at all (if (ema20.length > 0 && ema50.length > 0))
EmaFeatures(tf, ema) ==
    IF ema = <<>> THEN <<>>
    ELSE << Feature(<<"EMA", "20">>, tf, ema[1], 80, 2),
            Feature(<<"EMA", "50">>, tf, ema[2], 64, 3),
            Feature(<<"EMA", "CROSS">>, tf, ema[3], 120, 1) >>

EmaOutcomes == {<<>>} \cup (Directions \X Directions \X Directions)

\* VOLUME is pushed on a volume spike only
VolumeFeature(tf, volume) ==
    IF volume = "absent" THEN <<>> ELSE << Feature(<<"VOLUME">>, tf, volume, 70, 50) >>

VolumeOutcomes == {"absent", "long"}

\* what calculateIndicators() can return for the 5m candles
IndicatorBlocks ==
    {Oscillators("5m", rsi, macd, bb, stoch) \o EmaFeatures("5m", ema)
         \o VolumeFeature("5m", volume) :
        rsi \in OscillatorDirections, macd \in OscillatorDirections,
        bb \in OscillatorDirections, stoch \in OscillatorDirections,
        ema \in EmaOutcomes, volume \in VolumeOutcomes}

\* the 1h candles: none fetched, or three of the oscillators pointing up
HigherBlocks == {<<>>, Oscillators("1h", "long", "long", "null", "long")}

\* the feature lists scanSymbol() collects over its timeframes
FeatureLists == {b \o h : b \in IndicatorBlocks, h \in HigherBlocks}

\* cardCounts values: around 0 and on both sides of the bias threshold 5
ScoreCardCounts ==
    {c \in (0 - MaxCardCount)..MaxCardCount : Abs(c) <= 1 \/ Abs(c) >= 5}

\* scores, in ten-thousandths: 0, the thresholds 1.6 and 2.8, and beyond
ScoreValues == {0, 1, 16000, 28000, 100000, 210000, 1000000}

Timeframes == {"5m", "15m", "1h", "2h", "4h"}

Call(fn, args) == [fn |-> fn, args |-> args, done |-> FALSE, result |-> <<>>]

ComputeScoreCalls ==
    {Call("computeScore", [features |-> f, cardCount |-> c]) :
        f \in FeatureLists, c \in ScoreCardCounts}

EstimateRunDurationCalls ==
    {Call("estimateRunDuration", [score |-> sc, timeframesAgreement |-> tfs]) :
        sc \in ScoreValues, tfs \in SUBSET Timeframes}

\* calculateConfidence(result.score, result.indicatorCount, features): the
\* score of either sign, the indicator count that of the list
CalculateConfidenceCalls ==
    {Call("calculateConfidence",
          [score |-> sg * sc, indicatorCount |-> Len(Directional(f)), features |-> f]) :
        sg \in {-1, 1}, sc \in {0, 16000, 100000}, f \in FeatureLists}

\* five long signals, by name and weight * strength (ten-thousandths); the
\* contributions of each row sum to 3.0
ScenarioSignals ==
    {<< <<"RSI", 6000>>, <<"MACD", 6000>>, <<"EMA_20", 6400>>, <<"BB", 7100>>,
        <<"STOCH", 4500>> >>,
     << <<"RSI", 9000>>, <<"MACD", 3000>>, <<"EMA_20", 8000>>, <<"RSI", 4000>>,
        <<"BB", 6000>> >>,
     << <<"RSI", 10000>>, <<"MACD", 12000>>, <<"BB", 1000>>, <<"RSI", 1000>>,
        <<"MACD", 6000>> >>}

\* the indicator's name as its '_'-separated parts, and its DEFAULT_WEIGHTS
\* weight in hundredths
IndicatorName(name) ==
    IF name = "EMA_20" THEN <<"EMA", "20">> ELSE <<name>>

IndicatorWeight(name) ==
    CASE name = "RSI" -> 100 [] name = "MACD" -> 120 [] name = "EMA_20" -> 80
      [] name = "BB" -> 100 [] name = "STOCH" -> 90

ScenarioTimeframes == {"5m", "15m", "1h", "4h"}

\* the ways to lay a row over exactly 3 timeframes, one signal per indicator
\* and timeframe
ScenarioLayouts(row) ==
    {t \in [1..5 -> ScenarioTimeframes] :
        /\ Cardinality({t[i] : i \in 1..5}) = 3
        /\ \A i, j \in 1..5 : (i # j /\ row[i][1] = row[j][1]) => t[i] # t[j]}

ScenarioFeatures(row, tfs) ==
    [i \in 1..5 |->
        Feature(IndicatorName(row[i][1]), tfs[i], "long", IndicatorWeight(row[i][1]),
                row[i][2] \div IndicatorWeight(row[i][1]))]

ScenarioFeatureLists ==
    UNION {{ScenarioFeatures(row, tfs) : tfs \in ScenarioLayouts(row)} :
              row \in ScenarioSignals}

\* scanSymbol() up to its call of shouldCreatePrediction(), on a symbol whose
\* card count is +5
ScanSymbolCalls ==
    {Call("scanSymbol",
          [reading |-> Reading(f, trendStrength, marketVolatility, FairMarket),
           cardCount |-> 5]) :
        f \in ScenarioFeatureLists, trendStrength \in {0, 150},
        marketVolatility \in {30, 60}}

\* prices the exchange and the candle cache may report (an exit price equal
\* to the entry price, and quotients that are not whole)
PriceLevels == {1, 3, 100, 125, 300, 301}

\* the PnL computation of calculatePredictionOutcome() for a prediction of
\* either direction
PnlCalls ==
    {Call("pnlPercent",
          [direction |-> d, entryPrice |-> entryPrice, currentPrice |-> currentPrice]) :
        d \in Directions, entryPrice \in PriceLevels, currentPrice \in PriceLevels}

\* confidences (percent), risk/reward ratios above 0 and volatilities from 0
\* (tenths) calculatePositionSize() is applied to
SizingConfidences == {0, 40, 60, 95, 100}
SizingRiskRewards == {1, 5, 10, 25, 50}
SizingVolatilities == {0, 3, 5, 10, 30}

CalculatePositionSizeCalls ==
    {Call("calculatePositionSize",
          [confidence |-> c, riskRewardRatio |-> rr, volatility |-> v]) :
        c \in SizingConfidences, rr \in SizingRiskRewards, v \in SizingVolatilities}

ScoreInit ==
    /\ now = 0
    /\ status = [isRunning |-> TRUE, errorCount |-> 0]
    /\ scanInterval = TRUE
    /\ initialScanPending = FALSE
    /\ isScanning = TRUE
    /\ errorCount = 0
    /\ activePredictions = <<>>
    /\ cardCounts = <<>>
    /\ scans = [slot \in 1..MaxSlots |-> IdleScan]
    /\ outcomeTasks = {}
    /\ dbPredictions = {}
    /\ dbOutcomes = <<>>
    /\ dbCardCounts = <<>>
    /\ admitted = [n \in NormalizedSymbols |-> <<>>]
    /\ removed = <<>>
    /\ lastVerdict = NoVerdict
    /\ stopCalled = FALSE
    /\ call \in ComputeScoreCalls \cup EstimateRunDurationCalls
                    \cup CalculateConfidenceCalls \cup ScanSymbolCalls
                    \cup PnlCalls \cup CalculatePositionSizeCalls
    /\ payments = NoPayments

ComputeScore ==
    /\ call.fn = "computeScore"
    /\ ~call.done
    /\ call' = [call EXCEPT !.done = TRUE,
                    !.result = computeScore(call.args.features, call.args.cardCount)]
    /\ UNCHANGED calleeVars

EstimateRunDuration ==
    /\ call.fn = "estimateRunDuration"
    /\ ~call.done
    /\ call' = [call EXCEPT !.done = TRUE,
                    !.result = estimateRunDuration(call.args.score,
                                                   call.args.timeframesAgreement)]
    /\ UNCHANGED calleeVars

CalculateConfidence ==
    /\ call.fn = "calculateConfidence"
    /\ ~call.done
    /\ call' = [call EXCEPT !.done = TRUE,
                    !.result = calculateConfidence(call.args.score,
                                   call.args.indicatorCount, call.args.features)]
    /\ UNCHANGED calleeVars

\* scanSymbol(): computeScore, the score threshold, estimateRunDuration and
\* calculateConfidence on one reading
ScanSymbolEstimate ==
    /\ call.fn = "scanSymbol"
    /\ ~call.done
    /\ call' = [call EXCEPT !.done = TRUE,
                    !.result = Estimate(call.args.reading, call.args.cardCount)]
    /\ UNCHANGED calleeVars

\* calculatePredictionOutcome(): the PnL of the closed prediction
CalculatePnl ==
    /\ call.fn = "pnlPercent"
    /\ ~call.done
    /\ call' = [call EXCEPT !.done = TRUE,
                    !.result = pnlPercent(call.args.direction, call.args.entryPrice,
                                          call.args.currentPrice)]
    /\ UNCHANGED calleeVars

CalculatePositionSize ==
    /\ call.fn = "calculatePositionSize"
    /\ ~call.done
    /\ call' = [call EXCEPT !.done = TRUE,
                    !.result = calculatePositionSize(call.args.confidence,
                                   call.args.riskRewardRatio, call.args.volatility)]
    /\ UNCHANGED calleeVars

ScoreNext ==
    \/ ComputeScore
    \/ EstimateRunDuration
    \/ CalculateConfidence
    \/ ScanSymbolEstimate
    \/ CalculatePnl
    \/ CalculatePositionSize

ScoreSpec == ScoreInit /\ [][ScoreNext]_vars

(***************************************************************************)
(* The duplicate sweep on its own: forceCleanupDuplicates() applied to any *)
(* active map a defect may have left behind, several entries per pair and  *)
(* equal confidences included.                                             *)
(***************************************************************************)
\* entries per map the sweep is tried on
MaxSweepLen == 3

\* a Prediction as far as the sweep reads it: id, symbol, confidence
SweepEntry(symbol, confidence) ==
    [id |-> <<symbol, confidence>>, symbol |-> symbol, direction |-> "long",
     score |-> 20000, confidence |-> confidence, estimatedRunMs |-> 1800000,
     createdAt |-> 0, expiresAt |-> 1800000, cardCount |-> 0,
     profitabilityScore |-> 0]

SweepEntries ==
    {SweepEntry(symbol, confidence) :
        symbol \in {Joined("A"), Pair("A"), Pair("a"), Joined("B")},
        confidence \in {600000, 700000}}

\* the maps of up to MaxSweepLen distinct entries, in any insertion order
SweepMaps ==
    {preds \in UNION {[1..n -> SweepEntries] : n \in 0..MaxSweepLen} :
        \A i, j \in 1..Len(preds) : i # j => preds[i].id # preds[j].id}

SweepInit ==
    /\ now = 0
    /\ status = [isRunning |-> TRUE, errorCount |-> 0]
    /\ scanInterval = TRUE
    /\ initialScanPending = FALSE
    /\ isScanning = FALSE
    /\ errorCount = 0
    /\ activePredictions \in SweepMaps
    /\ cardCounts = <<>>
    /\ scans = [slot \in 1..MaxSlots |-> IdleScan]
    /\ outcomeTasks = {}
    /\ dbPredictions = {}
    /\ dbOutcomes = <<>>
    /\ dbCardCounts = <<>>
    /\ admitted = [n \in NormalizedSymbols |-> <<>>]
    /\ removed = <<>>
    /\ lastVerdict = NoVerdict
    /\ stopCalled = FALSE
    /\ call = NoCall
    /\ payments = NoPayments

SweepNext == ForceCleanupDuplicates

SweepSpec == SweepInit /\ [][SweepNext]_vars

(***************************************************************************)
(* Properties                                                              *)
(***************************************************************************)

\* C1: in every reachable state the active prediction set holds at most
\* maxActivePredictions (10) entries.
C1_AtMostCapacity == Len(activePredictions) <= maxActivePredictions

\* the set is full right after an admission that evicted an entry
C1_Witness ==
    /\ Len(activePredictions) = maxActivePredictions
    /\ lastVerdict.outcome = "created"
    /\ lastVerdict.evicted # {}

\* C2: in every reachable state no two entries of the active set have the same
\* normalized symbol (every slash removed, upper-cased).
C2_OnePerNormalizedSymbol ==
    LET key(symbol) == ToUpperCase(SelectSeq(symbol, LAMBDA c : c # "/"))
    IN  \A i, j \in 1..Len(activePredictions) :
            i # j => key(activePredictions[i].symbol) # key(activePredictions[j].symbol)

\* the pair admitted under the spelling AU is active, and the spelling a/u of
\* the same pair has just been turned down as a duplicate
C2_Witness ==
    /\ lastVerdict.outcome = "duplicate"
    /\ lastVerdict.symbol = Pair("a")
    /\ \E p \in Range(activePredictions) : p.symbol = Joined("A") /\ p.cardCount = 0

\* C3: a step that adds an entry to a full active set adds one whose
\* confidence is strictly greater than the lowest confidence in the set plus
\* the admission margin.
C3_AdmittedAboveMargin ==
    [][Len(activePredictions) >= maxActivePredictions =>
          \A p \in Range(activePredictions') :
              p.id \notin {q.id : q \in Range(activePredictions)} =>
                  p.confidence > LowestConfidence(activePredictions) + admissionMargin]_vars

\* a candidate within the margin of the lowest confidence has just been turned
\* down by the full set
C3_Witness ==
    /\ Len(activePredictions) = maxActivePredictions
    /\ lastVerdict.outcome = "margin"
    /\ lastVerdict.confidence > LowestConfidence(activePredictions)
    /\ lastVerdict.confidence <= LowestConfidence(activePredictions) + admissionMargin

\* C4: whenever an admission at full capacity evicts an entry, the evicted
\* entry has the minimum confidence of all entries active at that moment.
C4_EvictsLowestConfidence ==
    [][\A p \in Range(activePredictions) :
          (/\ p.id \notin DOMAIN removed
           /\ p.id \in DOMAIN removed'
           /\ removed'[p.id] = "eviction")
              => p.confidence = LowestConfidence(activePredictions)]_vars

\* C5: with the active set at capacity and lowest active confidence 60, a
\* candidate that reaches the replacement decision needs a 10-point
\* improvement: a candidate with confidence below 70 (63, say) leaves the set
\* unchanged; a candidate with confidence 72 is admitted and the entry with
\* confidence 60 is the one evicted.
C5_TenPointReplacement ==
    [][(/\ Len(activePredictions) = maxActivePredictions
        /\ LowestConfidence(activePredictions) = 600000
        /\ lastVerdict' # lastVerdict
        /\ lastVerdict'.outcome \in {"created", "margin", "notBetter"})
          => /\ lastVerdict'.confidence < 700000 =>
                    activePredictions' = activePredictions
             /\ lastVerdict'.confidence = 720000 =>
                    /\ lastVerdict'.outcome = "created"
                    /\ \A p \in Range(activePredictions) :
                           p.id \in lastVerdict'.evicted => p.confidence = 600000]_vars

\* C6: for every symbol the ledger value returned for it is the number of
\* admitted long predictions minus the number of admitted short predictions
\* (the ledger starts at 0).
C6_LedgerIsLongsMinusShorts ==
    \A n \in NormalizedSymbols :
        getCardCount(n) =
            Cardinality({i \in 1..Len(admitted[n]) : admitted[n][i].direction = "long"})
          - Cardinality({i \in 1..Len(admitted[n]) : admitted[n][i].direction = "short"})

\* C7: at most one scan cycle runs at any time, and a trigger that arrives
\* while a cycle is in progress starts nothing: no step taken while isScanning
\* holds brings a runScan() invocation into flight, and the initial delayed
\* scan firing during a cycle leaves the scanner's state as it was.
C7_OneCycleAtATime ==
    /\ [](Cardinality({slot \in 1..MaxSlots : scans[slot].pc # "idle"}) <= 1)
    /\ [][/\ isScanning =>
                \A slot \in 1..MaxSlots :
                    scans[slot].pc = "idle" => scans'[slot].pc = "idle"
          /\ (isScanning /\ initialScanPending /\ ~initialScanPending') =>
                UNCHANGED scannerVars]_vars

\* a cycle is in its symbol loop, past the first symbol, and the timer of the
\* initial delayed scan is about to fire into it
C7_Witness ==
    /\ isScanning
    /\ initialScanPending
    /\ \E slot \in 1..MaxSlots : scans[slot].pc = "scanSymbol" /\ scans[slot].idx > 1

\* C8: while a scan cycle is past its head (awaiting the symbol listing or
\* evaluating candidates), no active prediction has expiresAt at or before the
\* cycle's start time.
C8_ExpiredRemovedBeforeCandidates ==
    \A slot \in 1..MaxSlots :
        scans[slot].pc # "idle" =>
            \A p \in Range(activePredictions) : p.expiresAt > scans[slot].scanStartTime

\* a cycle that began after the clock moved has removed a prediction by expiry
\* and has since admitted a candidate
C8_Witness ==
    /\ \E slot \in 1..MaxSlots :
          scans[slot].pc = "scanSymbol" /\ scans[slot].scanStartTime > 0
    /\ lastVerdict.outcome = "created"
    /\ \E id \in DOMAIN removed : removed[id] = "expiry" /\ id \notin DOMAIN dbOutcomes

C10_AdmittedAboveThresholds ==
    \A p \in Range(activePredictions) :
        LET inForce == admitted[p.id[1]][p.id[2]]
        IN  /\ Abs(p.score) >= inForce.minScore
            /\ inForce.minScore >= 15000
            /\ p.confidence >= inForce.minConfidence
            /\ inForce.minConfidence =
                   (IF inForce.marketVolatility > 50 THEN 500000 ELSE 400000)
            /\ p.estimatedRunMs >= 30 * 60000
            /\ p.estimatedRunMs <= 240 * 60000

\* a prediction admitted in a volatile market (confidence 72 against the
\* minimum of 50) is active
C10_Witness ==
    \E p \in Range(activePredictions) :
        /\ admitted[p.id[1]][p.id[2]].marketVolatility > 50
        /\ p.confidence = 720000

\* C11 as stated: with fewer than maxActivePredictions entries in the set, a
\* candidate is turned down only by the data, score, duration, confidence and
\* same-symbol checks; one that passes them is admitted.
C11_FreeCapacityAdmitsAll ==
    [][(/\ Len(activePredictions) < maxActivePredictions
        /\ lastVerdict' # lastVerdict
        /\ lastVerdict'.outcome # "none")
          => lastVerdict'.outcome \in {"noData", "weakSignal", "lowScore", "duration",
                                       "lowConfidence", "duplicate", "created"}]_vars

\* C11 amended: with fewer than maxActivePredictions entries in the set, a
\* candidate that passes the data, score, duration, confidence and same-symbol
\* checks is turned down only by the market filters of createPrediction()
\* (entry zone too far, risk/reward too low, market state uncertain); the
\* capacity conditions (confidence margin, profitability improvement) never
\* reject it.
C11_FreeCapacityAdmitsFiltered ==
    [][(/\ Len(activePredictions) < maxActivePredictions
        /\ lastVerdict' # lastVerdict
        /\ lastVerdict'.outcome # "none")
          => lastVerdict'.outcome \in {"noData", "weakSignal", "lowScore", "duration",
                                       "lowConfidence", "duplicate", "farEntry",
                                       "riskReward", "uncertainMarket", "created"}]_vars

\* a candidate has just been admitted as the tenth entry: the set had one free
\* slot, and the candidate's confidence is within the margin of the lowest
C11_Witness ==
    /\ Len(activePredictions) = maxActivePredictions
    /\ lastVerdict.outcome = "created"
    /\ lastVerdict.evicted = {}
    /\ lastVerdict.confidence <= LowestConfidence(activePredictions) + admissionMargin

\* C12: from any active set, sweeping the result of a duplicate sweep again
\* gives the same set as the one sweep.
C12_SweepIdempotent ==
    cleanupDuplicatePredictions(cleanupDuplicatePredictions(activePredictions))
        = cleanupDuplicatePredictions(activePredictions)

\* a sweep has removed two entries of one pair and left a single entry
C12_Witness ==
    /\ Len(activePredictions) = 1
    /\ Cardinality({id \in DOMAIN removed : removed[id] = "dedup"}) = 2

\* C13: a duplicate sweep leaves, for each normalized symbol (slash removed,
\* upper-cased) that had entries, exactly one entry, an entry it had before
\* with the maximum confidence among that symbol's entries; the entries of
\* symbols that had a single entry stay as they were.
C13_SweepKeepsHighest ==
    [][LET key(p) == ToUpperCase(SelectSeq(p.symbol, LAMBDA c : c # "/"))
           before == Range(activePredictions)
           after == Range(activePredictions')
       IN  /\ after \subseteq before
           /\ Len(activePredictions') = Cardinality(after)
           /\ \A p \in before :
                  /\ Cardinality({q \in after : key(q) = key(p)}) = 1
                  /\ \A q \in after : key(q) = key(p) => q.confidence >= p.confidence
                  /\ (\A q \in before : key(q) = key(p) => q = p) => p \in after]_vars

\* a sweep has removed an entry with confidence 60 whose pair keeps an entry
\* with confidence 70, next to the untouched single entry of another pair
C13_Witness ==
    /\ Len(activePredictions) = 2
    /\ \E id \in DOMAIN removed :
          /\ removed[id] = "dedup"
          /\ id[2] = 600000
          /\ \E p \in Range(activePredictions) :
                 /\ NormalizeSymbol(p.symbol) = NormalizeSymbol(id[1])
                 /\ p.confidence = 700000
    /\ \E p \in Range(activePredictions) : p.symbol = Joined("B")

\* C14: a step changes a sentiment counter (the scanner's card count or the
\* store's) only if it admits a prediction, and then only the counter of the
\* admitted prediction's normalized symbol: evictions, expiry, duplicate
\* sweeps and rejected candidates leave every counter as it was.
C14_OnlyAdmissionMovesCounter ==
    [][LET count(map, n) == IF n \in DOMAIN map THEN map[n] ELSE 0
           keys == DOMAIN cardCounts \cup DOMAIN cardCounts'
                       \cup DOMAIN dbCardCounts \cup DOMAIN dbCardCounts'
       IN  \A n \in keys :
               (\/ count(cardCounts', n) # count(cardCounts, n)
                \/ count(dbCardCounts', n) # count(dbCardCounts, n))
                   => /\ n \in NormalizedSymbols
                      /\ Len(admitted'[n]) = Len(admitted[n]) + 1]_vars

\* an admission has just evicted an entry, and the evicted entry's symbol
\* still has the counter its own admission left
C14_Witness ==
    /\ lastVerdict.outcome = "created"
    /\ lastVerdict.evicted # {}
    /\ \A id \in lastVerdict.evicted : getCardCount(id[1]) # 0

\* C15: while a scan cycle is in progress (isScanning), a step that is not a
\* step of that cycle (a forced rescan, a manual duplicate cleanup, a timer
\* firing, time passing, an outcome being settled) leaves the active set as
\* it is.
C15_OutsideStepsKeepActiveSet ==
    [][(isScanning /\ isScanning' /\ scans' = scans)
           => activePredictions' = activePredictions]_vars

\* a cycle is in progress, between two symbols, while the active set holds an
\* entry that has expired since the cycle's own expiry sweep
C15_Witness ==
    /\ isScanning
    /\ status.isRunning
    /\ \E slot \in 1..MaxSlots : scans[slot].pc \in {"getSymbols", "scanSymbol"}
    /\ \E i \in 1..Len(activePredictions) : IsExpired(activePredictions[i], now)

\* C16: admission is one step.  A step that evicts an entry or inserts one
\* inserts exactly one entry and removes exactly the evicted one, which
\* exists exactly when the set was full; an evaluation of a candidate that
\* inserts nothing leaves the active set as it was.
C16_AdmissionIsAtomic ==
    [][LET before == {activePredictions[i].id : i \in 1..Len(activePredictions)}
           after == {activePredictions'[i].id : i \in 1..Len(activePredictions')}
           new == after \ before
           gone == before \ after
           evictedNow == {id \in DOMAIN removed' \ DOMAIN removed :
                              removed'[id] = "eviction"}
           evaluation == \E slot \in 1..MaxSlots :
                             /\ scans[slot].pc = "scanSymbol"
                             /\ \/ scans'[slot].pc = "idle"
                                \/ scans'[slot].idx = scans[slot].idx + 1
       IN  /\ (new # {} \/ evictedNow # {})
                  => /\ Cardinality(new) = 1
                     /\ gone = evictedNow
                     /\ Cardinality(gone) =
                            IF Len(activePredictions) >= maxActivePredictions
                            THEN 1 ELSE 0
           /\ (evaluation /\ new = {}) => activePredictions' = activePredictions]_vars

\* a candidate has just taken the place of an evicted entry: the set is still
\* full, the candidate's symbol is in it and the evicted entry is not
C16_Witness ==
    /\ lastVerdict.outcome = "created"
    /\ Cardinality(lastVerdict.evicted) = 1
    /\ Len(activePredictions) = maxActivePredictions
    /\ \E i \in 1..Len(activePredictions) :
           activePredictions[i].symbol = NormalizeSymbol(lastVerdict.symbol)
    /\ \A i \in 1..Len(activePredictions) :
           activePredictions[i].id \notin lastVerdict.evicted

\* C17: once stop() has been called, no cycle in flight goes on to another
\* symbol (it may finish the one it is processing, and then halts), and no
\* new cycle begins, from the interval timer or from the delayed first scan.
C17_StopHaltsScanning ==
    [][stopCalled =>
          \A slot \in 1..MaxSlots :
              /\ scans[slot].pc = "idle" => scans'[slot].pc = "idle"
              /\ scans'[slot].pc = "scanSymbol"
                    => /\ scans[slot].pc = "scanSymbol"
                       /\ scans'[slot].idx = scans[slot].idx]_vars

\* C18: when scanSymbol() throws (the error counter moves), the cycle goes on
\* to the next symbol of its list with its counts as they were, or, after
\* the last symbol, completes and resets isScanning; a cycle in progress
\* always stands on a symbol of its list, the flag is set exactly while it does.
C18_ThrowDoesNotAbortCycle ==
    /\ [][errorCount' # errorCount =>
             \E slot \in 1..MaxSlots :
                 /\ scans[slot].pc = "scanSymbol"
                 /\ IF scans[slot].idx < Len(scans[slot].symbols)
                    THEN /\ scans'[slot] = [scans[slot] EXCEPT !.idx = @ + 1]
                         /\ isScanning'
                    ELSE /\ scans'[slot].pc = "idle"
                         /\ ~isScanning']_vars
    /\ [](isScanning <=>
               \E slot \in 1..MaxSlots :
                   \/ scans[slot].pc = "getSymbols"
                   \/ /\ scans[slot].pc = "scanSymbol"
                      /\ scans[slot].idx \in 1..Len(scans[slot].symbols))

\* a cycle has admitted a prediction after the scan of an earlier symbol of
\* its list threw
C18_Witness ==
    /\ isScanning
    /\ errorCount > status.errorCount
    /\ lastVerdict.outcome = "created"
    /\ \E slot \in 1..MaxSlots :
           /\ scans[slot].pc = "scanSymbol"
           /\ scans[slot].symbolsProcessed < scans[slot].idx - 1

\* C19: a scan that finds no indicator features (the websocket store and the
\* REST fallback gave no usable candles) moves the cycle to the next symbol,
\* creates no prediction and does not count an error.
C19_NoDataIsSkippedSilently ==
    [][(lastVerdict' # lastVerdict /\ lastVerdict'.outcome = "noData")
          => /\ activePredictions' = activePredictions
             /\ admitted' = admitted
             /\ dbPredictions' = dbPredictions
             /\ cardCounts' = cardCounts
             /\ errorCount' = errorCount
             /\ \E slot \in 1..MaxSlots :
                    /\ scans[slot].pc = "scanSymbol"
                    /\ scans'[slot].pc = "scanSymbol"
                    /\ scans'[slot].idx = scans[slot].idx + 1]_vars

\* a symbol was skipped because the exchange call for its candles failed, in
\* a run whose error counter has counted an exception before
C19_Witness ==
    /\ lastVerdict.outcome = "noData"
    /\ lastVerdict.restFailed
    /\ errorCount > 0

\* C20: a scan step whose call to the exchange failed has made 3 attempts,
\* and the error counter is incremented in that step.
C20_RetriedThreeTimes ==
    [][(lastVerdict' # lastVerdict /\ lastVerdict'.restFailed)
          => /\ lastVerdict'.restCalls = 3
             /\ errorCount' = errorCount + 1]_vars

\* C21: while the scanner runs, a cycle that waits for the candles of a
\* symbol is always followed by the start of a new cycle (a cycle at its
\* first await; at most one is in flight), or by stop(): one call that never
\* returns does not keep the timer from starting cycles for ever.
C21_SlowCallDoesNotStallTimer ==
    (/\ status.isRunning
     /\ isScanning
     /\ \E slot \in 1..MaxSlots : scans[slot].pc = "scanSymbol")
        ~> (\/ stopCalled
            \/ \E slot \in 1..MaxSlots : scans[slot].pc = "getSymbols")

\* C22: every Outcome on record belongs to a prediction that left the active
\* map by expiry; a prediction that was evicted has no Outcome.
C22_OutcomeOnlyAfterExpiry ==
    \A id \in DOMAIN dbOutcomes :
        /\ id \in DOMAIN removed
        /\ removed[id] = "expiry"

\* an eviction has happened, and the expired prediction of the same run has
\* its Outcome
C22_Witness ==
    /\ \E id \in DOMAIN removed : removed[id] = "eviction"
    /\ \E id \in DOMAIN dbOutcomes : removed[id] = "expiry"

\* C23: a step that evicts a prediction writes to the prediction store about
\* the evicted prediction.
C23_EvictionIsLogged ==
    [][\A id \in DOMAIN removed' \ DOMAIN removed :
          removed'[id] = "eviction"
              => \E write \in dbWrites' \ dbWrites : write[2] = id]_vars

\* C24: in the variant with the balance check, a candidate of confidence
\* below 85 that meets an active map with at least 7 entries of one direction
\* and at most 1 of the other is rejected, and the map stays as it is.
C24_SkewedPortfolioRejects ==
    [][LET longCount ==
               Cardinality({i \in 1..Len(activePredictions) :
                               activePredictions[i].direction = "long"})
           shortCount ==
               Cardinality({i \in 1..Len(activePredictions) :
                               activePredictions[i].direction = "short"})
       IN  (/\ \/ longCount >= 7 /\ shortCount <= 1
               \/ shortCount >= 7 /\ longCount <= 1
            /\ lastVerdict' # lastVerdict
            /\ lastVerdict'.confidence < 850000)
               => /\ lastVerdict'.outcome # "created"
                  /\ activePredictions' = activePredictions]_vars

\* a candidate that clears the minimum confidence, is not a duplicate and has
\* a free slot has just been turned away by the balance check
C24_Witness ==
    /\ lastVerdict.outcome = "imbalanced"
    /\ lastVerdict.confidence >= 650000
    /\ Len(activePredictions) < maxActivePredictions

\* C25: computeScore() applied to a feature list with fewer than 3
\* directional signals returns the score 0, whatever the card count.
C25_GateForcesZero ==
    (/\ call.fn = "computeScore"
     /\ call.done
     /\ CountDirection(call.args.features, "long")
            + CountDirection(call.args.features, "short") < 3)
        => call.result.score = 0

\* C26: the score computeScore() holds right after the balance clamp is, in
\* magnitude, at most 0.7 times the larger of the long and the short total.
C26_ClampBoundsBalancedScore ==
    (call.fn = "computeScore" /\ call.done)
        => Abs(call.result.balanced) * 10
               <= Max(call.result.longTotal, call.result.shortTotal) * 7

\* computeScore() has run on a list whose raw score was beyond the bound, and
\* the clamp has cut it
C26_Witness ==
    /\ call.fn = "computeScore"
    /\ call.done
    /\ Abs(call.result.rawScore) * 10
           > Max(call.result.longTotal, call.result.shortTotal) * 7
    /\ call.result.balanced # call.result.rawScore
    /\ call.result.shortTotal > 0
    /\ call.result.longTotal > call.result.shortTotal

\* C27: the bonus computeScore() adds is the sum, over the (timeframe,
\* direction) groups of directional signals, of 0.3 * (count - 2) towards the
\* group's direction for a group of 3 or more signals, and of nothing for a
\* smaller group.
C27_ConfluenceBonusPerGroup ==
    (call.fn = "computeScore" /\ call.done)
        => LET features == call.args.features
               members(tf, dir) ==
                   {i \in 1..Len(features) :
                       features[i].timeframe = tf /\ features[i].direction = dir}
               groups == {<<features[i].timeframe, features[i].direction>> :
                             i \in {j \in 1..Len(features) :
                                       features[j].direction # "null"}}
               expected == [g \in groups |->
                   LET count == Cardinality(members(g[1], g[2]))
                   IN  IF count >= 3
                       THEN (count - 2) * 3000 * (IF g[2] = "long" THEN 1 ELSE -1)
                       ELSE 0]
           IN  call.result.bonus = SumSet(expected, groups)

\* C28: for a card count beyond the bias threshold on either side, the
\* contribution computeScore() adds has the sign of the card count and is
\* smaller in magnitude than |cardCount| * 0.15.
C28_PenaltyDampensBothSigns ==
    (/\ call.fn = "computeScore"
     /\ call.done
     /\ Abs(call.args.cardCount) > 5)
        => /\ call.result.cardContribution * call.args.cardCount > 0
           /\ Abs(call.result.cardContribution) < Abs(call.args.cardCount) * 1500

\* C29: estimateRunDuration() applied to a score of 0 or more and any set of
\* agreeing timeframes returns between 1,800,000 ms and 14,400,000 ms.
C29_DurationWithinBounds ==
    (call.fn = "estimateRunDuration" /\ call.done)
        => /\ call.result >= 1800000
           /\ call.result <= 14400000

\* estimateRunDuration() has returned the cap for a score and higher
\* timeframes that add up to more than 240 minutes
C29_Witness ==
    /\ call.fn = "estimateRunDuration"
    /\ call.done
    /\ call.result = 14400000
    /\ call.args.score = 210000
    /\ "4h" \in call.args.timeframesAgreement

C32_PnlZeroAndAntisymmetric ==
    (call.fn = "pnlPercent" /\ call.done)
        => LET entryPrice == call.args.entryPrice
               currentPrice == call.args.currentPrice
               opposite == IF call.args.direction = "long" THEN "short" ELSE "long"
           IN  /\ entryPrice = currentPrice => call.result = 0
               /\ call.result = -pnlPercent(opposite, entryPrice, currentPrice)

\* the PnL of a short has been computed for an exit price a third of a
\* percent above the entry price: a loss
C32_Witness ==
    /\ call.fn = "pnlPercent"
    /\ call.done
    /\ call.args.direction = "short"
    /\ call.args.entryPrice = 300
    /\ call.args.currentPrice = 301
    /\ call.result < 0

\* C33: calculatePositionSize() returns a suggestedSize between 0 and 10
\* percent and a maxRisk between 0 and 2 percent, for every confidence in
\* [0, 100], risk/reward ratio above 0 and volatility of 0 or more.
C33_PositionSizeWithinCeilings ==
    (call.fn = "calculatePositionSize" /\ call.done)
        => /\ call.result.suggestedSize >= 0
           /\ call.result.suggestedSize <= 100
           /\ call.result.maxRisk >= 0
           /\ call.result.maxRisk <= 20

\* a confident signal in a calm market, whose quarter Kelly fraction is above
\* either ceiling: 10 percent and 2 percent are returned
C33_Witness ==
    /\ call.fn = "calculatePositionSize"
    /\ call.done
    /\ call.args.confidence = 95
    /\ call.args.volatility = 0
    /\ call.result.kellyFraction > 400
    /\ call.result.suggestedSize = 100
    /\ call.result.maxRisk = 20

\* C34: for every symbol the scanner's in-memory card count equals the card
\* count the prediction store holds for it (a symbol absent from either map
\* counts 0), so that loadCardCounts() would reproduce the in-memory values.
C34_MemoryMatchesStore ==
    \A n \in DOMAIN cardCounts \cup DOMAIN dbCardCounts :
        getCardCount(n) = (IF n \in DOMAIN dbCardCounts THEN dbCardCounts[n] ELSE 0)

\* C35: a step that ends a scan cycle, normally or by an exception that
\* escaped the try block of runScan(), leaves isScanning false; whenever no
\* cycle is in flight the flag is false; and after a cycle that ended by an
\* escaped exception the flag is set again only by the start of a new cycle.
C35_CycleEndResetsFlag ==
    /\ [][\A slot \in 1..MaxSlots :
              (scans[slot].pc # "idle" /\ scans'[slot].pc = "idle") => ~isScanning']_vars
    /\ []((\A slot \in 1..MaxSlots : scans[slot].pc = "idle") => ~isScanning)
    /\ [][(/\ \A slot \in 1..MaxSlots : scans[slot].pc = "idle"
           /\ lastVerdict.outcome = "escaped"
           /\ isScanning')
              => \E slot \in 1..MaxSlots : scans'[slot].pc = "getSymbols"]_vars

\* a cycle has ended in the outer catch block of runScan(): the error is
\* counted and reported, and a new cycle has started since
C35_Witness ==
    /\ lastVerdict.outcome = "escaped"
    /\ errorCount = 1
    /\ status.errorCount = 1
    /\ isScanning
    /\ \E slot \in 1..MaxSlots : scans[slot].pc = "getSymbols"

\* C36: start() never has more than 3 failed connection tests behind it; it
\* throws only after 3 failed tests, and then the scanner is not running, no
\* timer is armed, and nothing happens any more.
C36_StartGivesUpAfterThree ==
    /\ [](failedAttempts <= 3)
    /\ []((call.fn = "start" /\ call.done)
             => /\ failedAttempts = 3
                /\ ~status.isRunning
                /\ ~scanInterval
                /\ ~initialScanPending
                /\ ~isScanning)
    /\ [][~(call.fn = "start" /\ call.done)]_vars

\* start() has thrown after its third failed connection test
C36_Witness ==
    /\ call.fn = "start"
    /\ call.done
    /\ call.result = 3
    /\ ~status.isRunning

(***************************************************************************)
(* Health of the scanner: the error count over whole scan cycles.          *)
(*                                                                         *)
(* HealthSpec follows errorCount, lastSuccessfulScan and status.isRunning  *)
(* over many cycles.  A cycle is one step here: of all that runScan() does *)
(* only the number of symbols whose scan threw and the place where an      *)
(* exception escaped the cycle matter to these fields.  The record status  *)
(* carries lastSuccessfulScan next to status.isRunning and                 *)
(* status.errorCount, as milliseconds, 0 for the initial ''.               *)
(***************************************************************************)
HealthTickMs == 60000

\* where an exception leaves the try block of runScan(): nowhere, at
\* `await this.predictionManager.getSuccessRate()` before lastSuccessfulScan
\* is assigned, or in a listener of emit() after it
EscapePoints == {"none", "status", "emit"}

\* errorCount after a clean cycle restarts from zero
errorCountAfterCycleResetting(count, thrown, escape) ==
    IF thrown = 0 /\ escape = "none" THEN 0
    ELSE count + thrown + (IF escape = "none" THEN 0 ELSE 1)

\* this.errorCount++ once per symbol whose scan threw and once in the outer
\* catch; no other assignment to errorCount exists
errorCountAfterCycle(count, thrown, escape) ==
    count + thrown + (IF escape = "none" THEN 0 ELSE 1)

\* ScannerService.isHealthy()
isHealthy ==
    /\ status.isRunning
    /\ now - status.lastSuccessfulScan < healthyScanAgeMs
    /\ errorCount < healthyErrorLimit

\* the scanner long after the epoch, constructed and not started
HealthInit ==
    /\ now = TickMs
    /\ status = [isRunning |-> FALSE, errorCount |-> 0, lastSuccessfulScan |-> 0]
    /\ scanInterval = FALSE
    /\ initialScanPending = FALSE
    /\ isScanning = FALSE
    /\ errorCount = 0
    /\ activePredictions = <<>>
    /\ cardCounts = <<>>
    /\ scans = [slot \in 1..MaxSlots |-> IdleScan]
    /\ outcomeTasks = {}
    /\ dbPredictions = {}
    /\ dbOutcomes = <<>>
    /\ dbCardCounts = <<>>
    /\ admitted = [n \in NormalizedSymbols |-> <<>>]
    /\ removed = <<>>
    /\ lastVerdict = NoVerdict
    /\ stopCalled = FALSE
    /\ call = NoCall
    /\ payments = NoPayments

\* start() with a connection that answers: isRunning = true, timers set
HealthStart ==
    /\ ~status.isRunning
    /\ status' = [status EXCEPT !.isRunning = TRUE]
    /\ scanInterval' = TRUE
    /\ stopCalled' = FALSE
    /\ UNCHANGED <<payments, call, now, initialScanPending, isScanning, errorCount,
                   activePredictions, cardCounts, scans, outcomeTasks,
                   dbPredictions, dbOutcomes, dbCardCounts, admitted, removed,
                   lastVerdict>>

\* stop(): isRunning = false, interval cleared
HealthStop ==
    /\ status.isRunning
    /\ status' = [status EXCEPT !.isRunning = FALSE]
    /\ scanInterval' = FALSE
    /\ stopCalled' = TRUE
    /\ UNCHANGED <<payments, call, now, initialScanPending, isScanning, errorCount,
                   activePredictions, cardCounts, scans, outcomeTasks,
                   dbPredictions, dbOutcomes, dbCardCounts, admitted, removed,
                   lastVerdict>>

\* one whole runScan(), from `this.isScanning = true` to the finally block;
\* a cycle started before stop() may still end after it
RunScanCycle ==
    /\ ~isScanning
    /\ scanInterval \/ stopCalled
    /\ \E thrown \in 0..MaxThrowsPerCycle, escape \in EscapePoints :
        /\ errorCountAfterCycle(errorCount, thrown, escape) <= MaxErrorCount
        /\ errorCount' = errorCountAfterCycle(errorCount, thrown, escape)
        \* status.errorCount is assigned on the normal path and in the catch
        /\ status' = [status EXCEPT
                !.errorCount = errorCount',
                !.lastSuccessfulScan = IF escape = "status" THEN @ ELSE now]
    /\ UNCHANGED <<payments, call, stopCalled, now, scanInterval, initialScanPending,
                   isScanning, activePredictions, cardCounts, scans,
                   outcomeTasks, dbPredictions, dbOutcomes, dbCardCounts,
                   admitted, removed, lastVerdict>>

\* time passes
HealthTick ==
    /\ now < TickMs + MaxHealthTicks * HealthTickMs
    /\ now' = now + HealthTickMs
    /\ UNCHANGED <<payments, call, stopCalled, status, scanInterval, initialScanPending,
                   isScanning, errorCount, activePredictions, cardCounts,
                   scans, outcomeTasks, dbPredictions, dbOutcomes,
                   dbCardCounts, admitted, removed, lastVerdict>>

HealthNext ==
    \/ HealthStart
    \/ HealthStop
    \/ RunScanCycle
    \/ HealthTick

HealthSpec == HealthInit /\ [][HealthNext]_vars

\* C37: the error count never decreases from one state to the next, and in
\* every state where it has reached 10 isHealthy() is false, whatever the
\* cycles since then did.
C37_ErrorCountLatchesUnhealthy ==
    [][/\ errorCount' >= errorCount
       /\ (errorCount >= healthyErrorLimit => ~isHealthy')]_vars

\* the count is at 10 or more and a cycle has just completed on a running
\* scanner: the other two conditions of isHealthy() hold
C37_Witness ==
    /\ errorCount >= healthyErrorLimit
    /\ status.isRunning
    /\ status.lastSuccessfulScan = now
    /\ status.errorCount = errorCount
    /\ ~isHealthy

(***************************************************************************)
(* Crypto payments (payments/crypto-handler.ts).                           *)
(*                                                                         *)
(* checkPaymentStatus() awaits the provider's answer, then, in one step,   *)
(* looks the payment up, marks it confirmed and calls                      *)
(* activateSubscription(), which adds the subscriber synchronously and     *)
(* then awaits the Telegram message; the payment leaves pendingPayments    *)
(* only after that second await.  The 30 s interval starts                 *)
(* checkPendingPayments() whether or not an earlier round is still         *)
(* running, and checkPaymentStatus() is public.                            *)
(***************************************************************************)
\* every variable but payments
scannerSideVars == <<now, status, scanInterval, initialScanPending, isScanning,
                     errorCount, activePredictions, cardCounts, scans,
                     outcomeTasks, dbPredictions, dbOutcomes, dbCardCounts,
                     admitted, removed, lastVerdict, stopCalled, call>>

CreatedPayments == 1..payments.created

\* the entries a Map iterator positioned after `last` still has to visit
EntriesAfter(p, last) == {id \in p.pendingPayments : id > last}

MinOf(S) == CHOOSE x \in S : \A y \in S : x <= y

RECURSIVE RoundAdvance(_, _, _)
\* the for-of loop of checkPendingPayments() from the entry after `last` up
\* to its next await: expired entries are marked and deleted, the first
\* other entry is handed to checkPaymentStatus(), which sends its request;
\* with no entry left the round ends
RoundAdvance(p, slot, last) ==
    IF EntriesAfter(p, last) = {}
    THEN [p EXCEPT !.calls[slot] = IdlePaymentCall]
    ELSE LET id == MinOf(EntriesAfter(p, last)) IN
         IF id \in p.pastExpiry
         THEN RoundAdvance([p EXCEPT !.status[id] = "expired",
                                     !.pendingPayments = @ \ {id}],
                           slot, id)
         ELSE [p EXCEPT !.calls[slot] =
                  [kind |-> "round", pc |-> "get", paymentId |-> id, last |-> id]]

\* checkPaymentStatus() has returned: a direct call is over, a polling round
\* goes on with its loop
Return(p, slot) ==
    IF p.calls[slot].kind = "round"
    THEN RoundAdvance(p, slot, p.calls[slot].last)
    ELSE [p EXCEPT !.calls[slot] = IdlePaymentCall]

\* payment.status = 'confirmed'; activateSubscription() up to its await:
\* telegramBot.addSubscriber(), then the message is on its way
afterConfirmed(p, slot, id) ==
    [p EXCEPT !.status[id] = "confirmed",
              !.activations[id] = @ + 1,
              !.calls[slot].pc = "send"]

\* createPayment() after the provider accepted it: pendingPayments.set()
CreatePayment ==
    /\ payments.created < MaxPayments
    /\ payments' = [payments EXCEPT
            !.created = @ + 1,
            !.pendingPayments = @ \cup {payments.created + 1},
            !.status[payments.created + 1] = "pending"]
    /\ UNCHANGED scannerSideVars

\* the provider sees the transfer confirmed
ProviderConfirms(id) ==
    /\ id \in CreatedPayments
    /\ payments.provider[id] = "waiting"
    /\ payments' = [payments EXCEPT !.provider[id] = "confirmed"]
    /\ UNCHANGED scannerSideVars

\* the clock passes payment.expiresAt
ExpiryPasses(id) ==
    /\ id \in CreatedPayments
    /\ id \notin payments.pastExpiry
    /\ payments' = [payments EXCEPT !.pastExpiry = @ \cup {id}]
    /\ UNCHANGED scannerSideVars

\* the 30 s interval fires: checkPendingPayments() up to its first await
CheckPendingPayments(slot) ==
    /\ payments.calls[slot].kind = "idle"
    /\ payments' = RoundAdvance([payments EXCEPT !.calls[slot].kind = "round"],
                                slot, 0)
    /\ UNCHANGED scannerSideVars

\* a direct checkPaymentStatus(paymentId): the request is sent
CheckPaymentStatus(slot, id) ==
    /\ payments.calls[slot].kind = "idle"
    /\ id \in CreatedPayments
    /\ payments' = [payments EXCEPT !.calls[slot] =
            [kind |-> "direct", pc |-> "get", paymentId |-> id, last |-> 0]]
    /\ UNCHANGED scannerSideVars

\* axios.get() settles: it rejects ("error": the catch block returns null)
\* or brings a status the provider had between request and answer;
\* checkPaymentStatus() runs on to its return or to the await in
\* activateSubscription()
StatusArrives(slot) ==
    /\ payments.calls[slot].pc = "get"
    /\ LET id == payments.calls[slot].paymentId IN
       \E paymentStatus \in {"error", "waiting", payments.provider[id]} :
          IF id \in payments.pendingPayments /\ paymentStatus = "confirmed"
          THEN /\ payments.activations[id] < MaxActivations
               /\ payments' = afterConfirmed(payments, slot, id)
          ELSE payments' = Return(payments, slot)
    /\ UNCHANGED scannerSideVars

\* telegramBot.sendMessage() has settled (it catches its own errors):
\* pendingPayments.delete(paymentId), return
MessageSent(slot) ==
    /\ payments.calls[slot].pc = "send"
    /\ payments' = Return([payments EXCEPT
            !.pendingPayments = @ \ {payments.calls[slot].paymentId}], slot)
    /\ UNCHANGED scannerSideVars

PaymentNext ==
    \/ CreatePayment
    \/ \E id \in 1..MaxPayments : ProviderConfirms(id)
    \/ \E id \in 1..MaxPayments : ExpiryPasses(id)
    \/ \E slot \in 1..MaxPaymentCalls : CheckPendingPayments(slot)
    \/ \E slot \in 1..MaxPaymentCalls, id \in 1..MaxPayments : CheckPaymentStatus(slot, id)
    \/ \E slot \in 1..MaxPaymentCalls : StatusArrives(slot)
    \/ \E slot \in 1..MaxPaymentCalls : MessageSent(slot)

PaymentSpec == Init /\ [][PaymentNext]_vars

\* C38: no pending payment activates a subscription more than once, also
\* when polling rounds and direct status checks for it overlap.
C38_AtMostOneActivation ==
    \A id \in 1..MaxPayments : payments.activations[id] <= 1

====
